---------------------------- MODULE Spec2Model ----------------------------
(***************************************************************************)
(* Staged move picker of the engine (movepick.cpp): the phase table, the   *)
(* constructor's choice of the phase row, the scoring of a generated       *)
(* bucket, the selection loop of pick_move_from_list, the phase loop of    *)
(* get_next_move and its lock-taking variant used at split points.         *)
(*                                                                         *)
(* The board, the move generators, SEE, the history table and the legality *)
(* tests live outside movepick.cpp.  A position is therefore a small       *)
(* description of what those collaborators answer: for every move value    *)
(* its kind (what generator yields it), and the set of moves that the      *)
(* pinned-piece test rejects.                                              *)
(***************************************************************************)
EXTENDS Integers, Sequences, FiniteSets, TLC

---------------------------------------------------------------------------
(* Bounds of the model *)

\* Move values 1..NumMoves can be pseudo-legal in a position.
NumMoves == 3

\* How many calls a caller still makes after the first MOVE_NONE.
MaxExtraCalls == 2

\* Workers that share one picker at a split point.
NumWorkers == 2

---------------------------------------------------------------------------
(* Move values *)

MOVE_NONE == 0

Moves == 1..NumMoves

\* A move value that is no pseudo-legal move of any modelled position.
ForeignMove == NumMoves + 1

MoveValues == 0..ForeignMove

---------------------------------------------------------------------------
(* Program constants of movepick.cpp and of the headers it uses *)

BestScoreInit == -10000000

NonPvScanLimit == 12

QCapturesScanLimit == 4

HistoryMax == 50000

QueenValueMidgame == 2521

---------------------------------------------------------------------------
(* The phase table *)

PhaseTags ==
  {"PH_TT_MOVE", "PH_MATE_KILLER", "PH_GOOD_CAPTURES", "PH_BAD_CAPTURES",
   "PH_NONCAPTURES", "PH_EVASIONS", "PH_QCAPTURES", "PH_QCHECKS", "PH_STOP"}

\* The table with the losing captures in front of the noncaptures.
init_phase_table_BadCapturesFirst ==
  LET t0 == << >>
      main == Len(t0) - 1
      t1 == t0 \o <<"PH_TT_MOVE", "PH_MATE_KILLER", "PH_GOOD_CAPTURES",
                    "PH_BAD_CAPTURES", "PH_NONCAPTURES", "PH_STOP">>
      evasions == Len(t1) - 1
      t2 == t1 \o <<"PH_EVASIONS", "PH_STOP">>
      qsWithChecks == Len(t2) - 1
      t3 == t2 \o <<"PH_QCAPTURES", "PH_QCHECKS", "PH_STOP">>
      qsNoCaptures == Len(t3) - 1
      t4 == t3 \o <<"PH_QCHECKS", "PH_STOP">>
      qsWithoutChecks == Len(t4) - 1
      t5 == t4 \o <<"PH_QCAPTURES", "PH_STOP">>
      noMoves == Len(t5) - 1
      t6 == t5 \o <<"PH_STOP">>
  IN  [PhaseTable |-> t6,
       MainSearchPhaseIndex |-> main,
       EvasionsPhaseIndex |-> evasions,
       QsearchWithChecksPhaseIndex |-> qsWithChecks,
       QsearchNoCapturesPhaseIndex |-> qsNoCaptures,
       QsearchWithoutChecksPhaseIndex |-> qsWithoutChecks,
       NoMovesPhaseIndex |-> noMoves]

\* init_phase_table(): the rows are appended one after the other and every
\* row index is the slot before the row's first phase (i - 1).
init_phase_table ==
  LET t0 == << >>
      main == Len(t0) - 1
      t1 == t0 \o <<"PH_TT_MOVE", "PH_MATE_KILLER", "PH_GOOD_CAPTURES",
                    "PH_NONCAPTURES", "PH_BAD_CAPTURES", "PH_STOP">>
      evasions == Len(t1) - 1
      t2 == t1 \o <<"PH_EVASIONS", "PH_STOP">>
      qsWithChecks == Len(t2) - 1
      t3 == t2 \o <<"PH_QCAPTURES", "PH_QCHECKS", "PH_STOP">>
      qsNoCaptures == Len(t3) - 1
      t4 == t3 \o <<"PH_QCHECKS", "PH_STOP">>
      qsWithoutChecks == Len(t4) - 1
      t5 == t4 \o <<"PH_QCAPTURES", "PH_STOP">>
      noMoves == Len(t5) - 1
      t6 == t5 \o <<"PH_STOP">>
  IN  [PhaseTable |-> t6,
       MainSearchPhaseIndex |-> main,
       EvasionsPhaseIndex |-> evasions,
       QsearchWithChecksPhaseIndex |-> qsWithChecks,
       QsearchNoCapturesPhaseIndex |-> qsNoCaptures,
       QsearchWithoutChecksPhaseIndex |-> qsWithoutChecks,
       NoMovesPhaseIndex |-> noMoves]

PhaseTable == init_phase_table.PhaseTable

MainSearchPhaseIndex == init_phase_table.MainSearchPhaseIndex

EvasionsPhaseIndex == init_phase_table.EvasionsPhaseIndex

QsearchWithChecksPhaseIndex == init_phase_table.QsearchWithChecksPhaseIndex

QsearchNoCapturesPhaseIndex == init_phase_table.QsearchNoCapturesPhaseIndex

QsearchWithoutChecksPhaseIndex == init_phase_table.QsearchWithoutChecksPhaseIndex

NoMovesPhaseIndex == init_phase_table.NoMovesPhaseIndex

\* Index of the last slot init_phase_table() has written.  The slots after it
\* hold the zero of a static array; the model stops a picker before them.
LastWrittenIndex == Len(PhaseTable) - 1

\* PhaseTable[phaseIndex].  A MainSearch picker starts at phaseIndex = -1, so
\* its first pick_move_from_list() and a current_move_type() before the first
\* call read the word in front of the array: whatever the build left there,
\* junk.tag.
PhaseAt(phaseIndex, junk) ==
  IF phaseIndex < 0 THEN junk.tag ELSE PhaseTable[phaseIndex + 1]


---------------------------------------------------------------------------
(* The position and the collaborators movepick.cpp calls *)

Kinds == {"none", "capG", "capB", "quiet", "check"}

Tables == {"flat", "asc", "desc", "promo"}

\* The piece values, history counters and exchange values of a position are
\* one of a few tables over the move values.
Val(pos, m) ==
  CASE pos.tab = "asc" -> m
    [] pos.tab = "desc" -> NumMoves + 1 - m
    [] OTHER -> 1

IsCapture(pos, m) == pos.kind[m] \in {"capG", "capB"}

IsPseudoLegal(pos, m) == m \in Moves /\ pos.kind[m] # "none"

\* Position::see: not negative for a capture of kind capG, negative for capB.
see(pos, m) ==
  CASE pos.kind[m] = "capG" -> Val(pos, m) - 1
    [] pos.kind[m] = "capB" -> 0 - Val(pos, m)
    [] OTHER -> 0

move_promotion(pos, m) == pos.tab = "promo" /\ m = NumMoves

\* midgame_value_of_piece_on(move_to(m)) - type_of_piece_on(move_from(m))
MvvLva(pos, m) == Val(pos, m)

\* H.move_ordering_score(piece_on(move_from(m)), m)
move_ordering_score(pos, m) == Val(pos, m) - 1

mg_pst_delta(pos, m) == m % 2

square_is_empty(pos, m) == ~IsCapture(pos, m)

\* The moves of a generator, in generator order, as MoveStack entries whose
\* score is not yet assigned.
AllMoves == [i \in 1..NumMoves |-> i]

Generated(pos, kinds) ==
  LET Yields(m) == pos.kind[m] \in kinds
      ms == SelectSeq(AllMoves, Yields)
  IN  [i \in 1..Len(ms) |-> [move |-> ms[i], score |-> 0]]

generate_captures(pos) == Generated(pos, {"capG", "capB"})

generate_noncaptures(pos) == Generated(pos, {"quiet", "check"})

\* generate_checks(pos, moves, dc): the non-capturing checks.
generate_checks(pos, dc) ==
  LET Yields(m) == pos.kind[m] = "check" /\ m \in dc
      ms == SelectSeq(AllMoves, Yields)
  IN  [i \in 1..Len(ms) |-> [move |-> ms[i], score |-> 0]]

\* generate_evasions: the legal moves of a position in check.
generate_evasions(pos) ==
  LET Yields(m) == pos.kind[m] # "none" /\ m \notin pos.pinned
      ms == SelectSeq(AllMoves, Yields)
  IN  [i \in 1..Len(ms) |-> [move |-> ms[i], score |-> 0]]

discovered_check_candidates(pos) == {m \in Moves : pos.kind[m] = "check"}

\* pinned_pieces: here the moves that a pinned piece (or the king walking
\* into an attack) makes illegal.
pinned_pieces(pos) == pos.pinned

\* move_is_legal(pos, m, pinned): the full test, defined for any move value.
move_is_legal(pos, m, pinned) == IsPseudoLegal(pos, m) /\ m \notin pinned

\* pos.pl_move_is_legal(m, pinned): defined for pseudo-legal moves only; on
\* any other value its answer is whatever the build computes, junk.ok.
pl_move_is_legal(pos, m, pinned, junk) ==
  IF IsPseudoLegal(pos, m) THEN m \notin pinned ELSE junk.ok

\* The legal moves of the position.
LegalMoves(pos) == {m \in Moves : IsPseudoLegal(pos, m) /\ m \notin pos.pinned}

---------------------------------------------------------------------------
(* MovePicker::MovePicker *)

\* "noCaptures": eval info is given and says that nothing can be captured.
NoCapturesHint(pos, ei) ==
  /\ ei.present
  /\ ~ei.attacksThem
  /\ ~ei.specialized
  /\ ~pos.ep
  /\ ~pos.pawn7

SelectPhaseIndex_DepthOff(pos, depth, noCaptures) ==
  IF pos.check THEN EvasionsPhaseIndex
  ELSE IF depth >= 0 THEN MainSearchPhaseIndex
  ELSE IF noCaptures THEN NoMovesPhaseIndex
  ELSE QsearchWithoutChecksPhaseIndex

SelectPhaseIndex(pos, depth, noCaptures) ==
  IF pos.check THEN EvasionsPhaseIndex
  ELSE IF depth > 0 THEN MainSearchPhaseIndex
  ELSE IF depth = 0
       THEN (IF noCaptures THEN QsearchNoCapturesPhaseIndex
                           ELSE QsearchWithChecksPhaseIndex)
  ELSE (IF noCaptures THEN NoMovesPhaseIndex
                      ELSE QsearchWithoutChecksPhaseIndex)

\* The constructor.  It leaves badCapturesPicked, moves[] and badCaptures[]
\* unassigned: badCapturesPicked holds what the stack held, junk.bcp, and the
\* arrays are modelled by their assigned prefixes.
MovePicker(p, pv, ttm, ss, d, ei, junk) ==
  [pvNode |-> pv,
   ttMove |-> ttm,
   mateKiller |-> IF ss.mateKiller = ttm THEN MOVE_NONE ELSE ss.mateKiller,
   killer1 |-> ss.killers[1],
   killer2 |-> ss.killers[2],
   depth |-> d,
   movesPicked |-> 0,
   numOfMoves |-> 0,
   numOfBadCaptures |-> 0,
   badCapturesPicked |-> junk.bcp,
   phaseIndex |-> SelectPhaseIndex(p, d, NoCapturesHint(p, ei)),
   dc |-> discovered_check_candidates(p),
   pinned |-> pinned_pieces(p),
   finished |-> FALSE,
   moves |-> << >>,
   badCaptures |-> << >>]

---------------------------------------------------------------------------
(* Scoring of a generated bucket *)

\* score_captures(): MVV/LVA for the captures whose SEE is not negative; a
\* losing capture is copied to badCaptures[] with its SEE as score and its
\* slot is refilled with the last move of the list (moves[i--] =
\* moves[--numOfMoves]).  The slots from numOfMoves on are dead afterwards.
RECURSIVE ScoreCapturesFrom(_, _, _)
ScoreCapturesFrom(mp, pos, i) ==
  IF ~(i < mp.numOfMoves) THEN [mp EXCEPT !.moves = SubSeq(@, 1, mp.numOfMoves)]
  ELSE
    LET m == mp.moves[i + 1].move
        seeValue == see(pos, m)
    IN  IF seeValue >= 0
        THEN ScoreCapturesFrom(
               [mp EXCEPT !.moves[i + 1].score =
                            IF move_promotion(pos, m) THEN QueenValueMidgame
                            ELSE MvvLva(pos, m)],
               pos, i + 1)
        ELSE
          LET losing == [move |-> m, score |-> seeValue]
              scored == [mp.moves EXCEPT ![i + 1] = losing]
              last == mp.numOfMoves - 1
          IN  ScoreCapturesFrom(
                [mp EXCEPT !.badCaptures = Append(@, losing),
                           !.numOfBadCaptures = @ + 1,
                           !.numOfMoves = last,
                           !.moves = [scored EXCEPT ![i + 1] = scored[last + 1]]],
                pos, i)

score_captures(mp, pos) == ScoreCapturesFrom(mp, pos, 0)

\* score_noncaptures(): killers first, then history (preferred to the
\* piece-square delta by the 1000 bonus), plus the piece-square delta.
NoncaptureScore(mp, pos, m) ==
  LET hs0 == IF m = mp.killer1 THEN HistoryMax + 2
             ELSE IF m = mp.killer2 THEN HistoryMax + 1
             ELSE move_ordering_score(pos, m)
      hs == IF hs0 > 0 THEN hs0 + 1000 ELSE hs0
  IN  hs + mg_pst_delta(pos, m)

score_noncaptures(mp, pos) ==
  [mp EXCEPT !.moves = [i \in 1..mp.numOfMoves |->
     [move |-> mp.moves[i].move,
      score |-> NoncaptureScore(mp, pos, mp.moves[i].move)]]]

\* score_evasions()
EvasionScore(mp, pos, m) ==
  IF m = mp.ttMove THEN 2 * HistoryMax
  ELSE IF ~square_is_empty(pos, m)
       THEN (LET seeScore == see(pos, m)
             IN  IF seeScore >= 0 THEN seeScore + HistoryMax ELSE seeScore)
  ELSE move_ordering_score(pos, m)

score_evasions(mp, pos) ==
  [mp EXCEPT !.moves = [i \in 1..mp.numOfMoves |->
     [move |-> mp.moves[i].move,
      score |-> EvasionScore(mp, pos, mp.moves[i].move)]]]

\* score_qcaptures(): MVV/LVA, no SEE
score_qcaptures(mp, pos) ==
  [mp EXCEPT !.moves = [i \in 1..mp.numOfMoves |->
     [move |-> mp.moves[i].move,
      score |-> IF move_promotion(pos, mp.moves[i].move) THEN QueenValueMidgame
                ELSE MvvLva(pos, mp.moves[i].move)]]]

---------------------------------------------------------------------------
(* Selection *)

\* A scan that takes the last index of the highest score.
RECURSIVE FindBestFrom_LastOccurrence(_, _, _, _, _)
FindBestFrom_LastOccurrence(moves, i, n, bestScore, bestIndex) ==
  IF ~(i < n) THEN bestIndex
  ELSE IF moves[i + 1].score >= bestScore
       THEN FindBestFrom_LastOccurrence(moves, i + 1, n, moves[i + 1].score, i)
  ELSE FindBestFrom_LastOccurrence(moves, i + 1, n, bestScore, bestIndex)

\* find_best_index(): the first index of the highest score in
\* moves[movesPicked..numOfMoves), or -1.
RECURSIVE FindBestFrom(_, _, _, _, _)
FindBestFrom(moves, i, n, bestScore, bestIndex) ==
  IF ~(i < n) THEN bestIndex
  ELSE IF moves[i + 1].score > bestScore
       THEN FindBestFrom(moves, i + 1, n, moves[i + 1].score, i)
  ELSE FindBestFrom(moves, i + 1, n, bestScore, bestIndex)

find_best_index(mp) ==
  FindBestFrom(mp.moves, mp.movesPicked, mp.numOfMoves, BestScoreInit, -1)

\* The condition under which a move taken from a bucket is returned.
Accepts_NoTTFilter(mp, pos, junk, tag, move) ==
  CASE tag = "PH_EVASIONS" -> TRUE
    [] OTHER -> pl_move_is_legal(pos, move, mp.pinned, junk)

Accepts_NoLegality(mp, pos, junk, tag, move) ==
  CASE tag \in {"PH_GOOD_CAPTURES", "PH_NONCAPTURES", "PH_BAD_CAPTURES"} ->
         move # mp.ttMove /\ move # mp.mateKiller
    [] OTHER -> TRUE

Accepts(mp, pos, junk, tag, move) ==
  CASE tag \in {"PH_GOOD_CAPTURES", "PH_NONCAPTURES", "PH_BAD_CAPTURES"} ->
         /\ move # mp.ttMove
         /\ move # mp.mateKiller
         /\ pl_move_is_legal(pos, move, mp.pinned, junk)
    [] tag = "PH_EVASIONS" -> TRUE
    [] OTHER -> pl_move_is_legal(pos, move, mp.pinned, junk)

\* The index the loop of a phase takes next from moves[].
BestIndexFor(mp, tag) ==
  CASE tag = "PH_NONCAPTURES" ->
         IF mp.pvNode \/ mp.movesPicked < NonPvScanLimit
         THEN find_best_index(mp) ELSE mp.movesPicked
    [] tag = "PH_QCAPTURES" ->
         IF mp.movesPicked < QCapturesScanLimit
         THEN find_best_index(mp) ELSE mp.movesPicked
    [] tag = "PH_QCHECKS" -> mp.movesPicked
    [] OTHER -> find_best_index(mp)

\* The while loops over moves[]: take moves[bestIndex], put moves[movesPicked]
\* into its slot, advance movesPicked, return the move if it is accepted.
\* Every score is above the -10000000 the scan starts from, so bestIndex is
\* never -1 while movesPicked < numOfMoves.
RECURSIVE PickFromMoves(_, _, _, _)
PickFromMoves(mp, pos, junk, tag) ==
  IF ~(mp.movesPicked < mp.numOfMoves) THEN [move |-> MOVE_NONE, mp |-> mp]
  ELSE
    LET bestIndex == BestIndexFor(mp, tag)
        move == mp.moves[bestIndex + 1].move
        mp1 == [mp EXCEPT !.moves[bestIndex + 1] = mp.moves[mp.movesPicked + 1],
                          !.movesPicked = @ + 1]
    IN  IF Accepts(mp, pos, junk, tag, move)
        THEN [move |-> move, mp |-> mp1]
        ELSE PickFromMoves(mp1, pos, junk, tag)

\* badCaptures[i].move; a negative index reads in front of the array.
BadCaptureAt(mp, junk, i) ==
  IF i < 0 THEN junk.slot ELSE mp.badCaptures[i + 1].move

RECURSIVE PickFromBadCaptures(_, _, _)
PickFromBadCaptures(mp, pos, junk) ==
  IF ~(mp.badCapturesPicked < mp.numOfBadCaptures)
  THEN [move |-> MOVE_NONE, mp |-> mp]
  ELSE
    LET move == BadCaptureAt(mp, junk, mp.badCapturesPicked)
        mp1 == [mp EXCEPT !.badCapturesPicked = @ + 1]
    IN  IF Accepts(mp, pos, junk, "PH_BAD_CAPTURES", move)
        THEN [move |-> move, mp |-> mp1]
        ELSE PickFromBadCaptures(mp1, pos, junk)

\* pick_move_from_list()
pick_move_from_list(mp, pos, junk) ==
  LET tag == PhaseAt(mp.phaseIndex, junk)
  IN  CASE tag \in {"PH_GOOD_CAPTURES", "PH_NONCAPTURES", "PH_EVASIONS",
                    "PH_QCAPTURES", "PH_QCHECKS"} ->
             PickFromMoves(mp, pos, junk, tag)
        [] tag = "PH_BAD_CAPTURES" -> PickFromBadCaptures(mp, pos, junk)
        [] OTHER -> [move |-> MOVE_NONE, mp |-> mp]

---------------------------------------------------------------------------
(* MovePicker::get_next_move *)

\* The switch without the reset of movesPicked after generate_noncaptures().
EnterPhase_NoncapturesKeepCursor(mp, pos, tag) ==
  CASE tag = "PH_TT_MOVE" ->
         [move |-> IF mp.ttMove # MOVE_NONE
                      /\ move_is_legal(pos, mp.ttMove, mp.pinned)
                   THEN mp.ttMove ELSE MOVE_NONE,
          mp |-> mp]
    [] tag = "PH_MATE_KILLER" ->
         [move |-> IF mp.mateKiller # MOVE_NONE
                      /\ move_is_legal(pos, mp.mateKiller, mp.pinned)
                   THEN mp.mateKiller ELSE MOVE_NONE,
          mp |-> mp]
    [] tag = "PH_GOOD_CAPTURES" ->
         LET g == generate_captures(pos)
         IN  [move |-> MOVE_NONE,
              mp |-> [score_captures([mp EXCEPT !.moves = g,
                                                !.numOfMoves = Len(g)], pos)
                        EXCEPT !.movesPicked = 0]]
    [] tag = "PH_BAD_CAPTURES" ->
         [move |-> MOVE_NONE, mp |-> [mp EXCEPT !.badCapturesPicked = 0]]
    [] tag = "PH_NONCAPTURES" ->
         LET g == generate_noncaptures(pos)
         IN  [move |-> MOVE_NONE,
              mp |-> score_noncaptures([mp EXCEPT !.moves = g,
                                                  !.numOfMoves = Len(g)], pos)]
    [] tag = "PH_EVASIONS" ->
         LET g == generate_evasions(pos)
         IN  [move |-> MOVE_NONE,
              mp |-> [score_evasions([mp EXCEPT !.moves = g,
                                                !.numOfMoves = Len(g)], pos)
                        EXCEPT !.movesPicked = 0]]
    [] tag = "PH_QCAPTURES" ->
         LET g == generate_captures(pos)
         IN  [move |-> MOVE_NONE,
              mp |-> [score_qcaptures([mp EXCEPT !.moves = g,
                                                 !.numOfMoves = Len(g)], pos)
                        EXCEPT !.movesPicked = 0]]
    [] tag = "PH_QCHECKS" ->
         LET g == generate_checks(pos, mp.dc)
         IN  [move |-> MOVE_NONE,
              mp |-> [mp EXCEPT !.moves = g, !.numOfMoves = Len(g),
                                !.movesPicked = 0]]
    [] OTHER -> [move |-> MOVE_NONE, mp |-> mp]

\* The switch on the phase just entered: the move it returns at once, if any,
\* and the picker after it.
EnterPhase(mp, pos, tag) ==
  CASE tag = "PH_TT_MOVE" ->
         [move |-> IF mp.ttMove # MOVE_NONE
                      /\ move_is_legal(pos, mp.ttMove, mp.pinned)
                   THEN mp.ttMove ELSE MOVE_NONE,
          mp |-> mp]
    [] tag = "PH_MATE_KILLER" ->
         [move |-> IF mp.mateKiller # MOVE_NONE
                      /\ move_is_legal(pos, mp.mateKiller, mp.pinned)
                   THEN mp.mateKiller ELSE MOVE_NONE,
          mp |-> mp]
    [] tag = "PH_GOOD_CAPTURES" ->
         LET g == generate_captures(pos)
         IN  [move |-> MOVE_NONE,
              mp |-> [score_captures([mp EXCEPT !.moves = g,
                                                !.numOfMoves = Len(g)], pos)
                        EXCEPT !.movesPicked = 0]]
    [] tag = "PH_BAD_CAPTURES" ->
         [move |-> MOVE_NONE, mp |-> [mp EXCEPT !.badCapturesPicked = 0]]
    [] tag = "PH_NONCAPTURES" ->
         LET g == generate_noncaptures(pos)
         IN  [move |-> MOVE_NONE,
              mp |-> [score_noncaptures([mp EXCEPT !.moves = g,
                                                   !.numOfMoves = Len(g)], pos)
                        EXCEPT !.movesPicked = 0]]
    [] tag = "PH_EVASIONS" ->
         LET g == generate_evasions(pos)
         IN  [move |-> MOVE_NONE,
              mp |-> [score_evasions([mp EXCEPT !.moves = g,
                                                !.numOfMoves = Len(g)], pos)
                        EXCEPT !.movesPicked = 0]]
    [] tag = "PH_QCAPTURES" ->
         LET g == generate_captures(pos)
         IN  [move |-> MOVE_NONE,
              mp |-> [score_qcaptures([mp EXCEPT !.moves = g,
                                                 !.numOfMoves = Len(g)], pos)
                        EXCEPT !.movesPicked = 0]]
    [] tag = "PH_QCHECKS" ->
         LET g == generate_checks(pos, mp.dc)
         IN  [move |-> MOVE_NONE,
              mp |-> [mp EXCEPT !.moves = g, !.numOfMoves = Len(g),
                                !.movesPicked = 0]]
    [] OTHER -> [move |-> MOVE_NONE, mp |-> mp]

\* The while (true) loop.  The result carries the phases the call entered by
\* phaseIndex++, in order.
RECURSIVE GetNextMoveFrom(_, _, _, _)
GetNextMoveFrom(mp, pos, junk, entered) ==
  LET picked == pick_move_from_list(mp, pos, junk)
  IN  IF picked.move # MOVE_NONE
      THEN [move |-> picked.move, mp |-> picked.mp, entered |-> entered]
      ELSE
        LET mp1 == [picked.mp EXCEPT !.phaseIndex = @ + 1]
            tag == PhaseAt(mp1.phaseIndex, junk)
            sw == EnterPhase(mp1, pos, tag)
            seen == Append(entered, tag)
        IN  IF tag = "PH_STOP"
            THEN [move |-> MOVE_NONE, mp |-> mp1, entered |-> seen]
            ELSE IF sw.move # MOVE_NONE
            THEN [move |-> sw.move, mp |-> sw.mp, entered |-> seen]
            ELSE GetNextMoveFrom(sw.mp, pos, junk, seen)

get_next_move(mp, pos, junk) == GetNextMoveFrom(mp, pos, junk, << >>)

\* current_move_type()
current_move_type(mp, junk) == PhaseAt(mp.phaseIndex, junk)

---------------------------------------------------------------------------
(* MovePicker::get_next_move(Lock&) *)

\* The section without the test of finished.
LockedSection_NoLatch(mp, pos, junk) ==
  LET r == get_next_move(mp, pos, junk)
  IN  [move |-> r.move, mp |-> r.mp, entered |-> r.entered, pulled |-> TRUE]

\* The section with the picker's advance lost.
LockedSection_LostUpdate(mp, pos, junk) ==
  LET r == get_next_move(mp, pos, junk)
  IN  [move |-> r.move,
       mp |-> IF r.move = MOVE_NONE THEN [r.mp EXCEPT !.finished = TRUE]
              ELSE mp,
       entered |-> << >>,
       pulled |-> TRUE]

\* The section between lock_grab and lock_release: the move the call will
\* return, the picker after it, and whether get_next_move() was called.
LockedSection(mp, pos, junk) ==
  IF mp.finished
  THEN [move |-> MOVE_NONE, mp |-> mp, entered |-> << >>, pulled |-> FALSE]
  ELSE
    LET r == get_next_move(mp, pos, junk)
    IN  [move |-> r.move,
         mp |-> IF r.move = MOVE_NONE THEN [r.mp EXCEPT !.finished = TRUE]
                ELSE r.mp,
         entered |-> r.entered,
         pulled |-> TRUE]

---------------------------------------------------------------------------
(* The inputs of the model *)

\* What the build left in the memory a MainSearch picker reads before it has
\* written it: the word in front of PhaseTable (tag), the unassigned
\* badCapturesPicked (bcp), the slot in front of badCaptures[] (slot) and the
\* answer of pl_move_is_legal on a value that is no pseudo-legal move (ok).
\* With any tag other than PH_BAD_CAPTURES, with bcp >= 0, or with a slot the
\* filter rejects, the first pick returns MOVE_NONE as with BenignJunk.
BenignJunk == [tag |-> "PH_STOP", bcp |-> 0, slot |-> MOVE_NONE, ok |-> FALSE]

JunkValues ==
  {BenignJunk}
    \cup {[tag |-> "PH_BAD_CAPTURES", bcp |-> -1, slot |-> g, ok |-> TRUE] :
            g \in {1, ForeignMove}}

PinSets(k) ==
  {{}} \cup {{m} : m \in {x \in Moves : k[x] # "none"}}

NoEvalInfo == [present |-> FALSE, attacksThem |-> FALSE, specialized |-> FALSE]

QuietEvalInfo == [present |-> TRUE, attacksThem |-> FALSE, specialized |-> FALSE]

\* The ordering context of a node: the value table of the position, the
\* killers of the search stack frame and the PV flag.
Contexts ==
  {[tab |-> "flat", killers |-> <<MOVE_NONE, MOVE_NONE>>, pv |-> TRUE],
   [tab |-> "asc", killers |-> <<1, 2>>, pv |-> FALSE],
   [tab |-> "desc", killers |-> <<2, 1>>, pv |-> TRUE],
   [tab |-> "promo", killers |-> <<MOVE_NONE, 1>>, pv |-> FALSE]}

CtorInput(p, pv, ttm, mk, killers, d, ei, junk) ==
  [pos |-> p, pv |-> pv, ttm |-> ttm,
   ss |-> [mateKiller |-> mk, killers |-> killers],
   d |-> d, ei |-> ei, junk |-> junk]

Construct(a) == MovePicker(a.pos, a.pv, a.ttm, a.ss, a.d, a.ei, a.junk)

---------------------------------------------------------------------------
(* State *)

VARIABLES
  pos,      \* the position the picker was built for
  junk,     \* what the memory the picker reads unwritten holds
  mp,       \* the MovePicker object
  args,     \* the arguments the constructor was called with
  phases,   \* the values current_move_type() has taken, from construction on
  log,      \* one entry per call: the move returned and the phase then current
  lock,     \* owner of the split point's lock, 0 when free
  wpc,      \* where each worker is in get_next_move(Lock&)
  wm,       \* the move each worker is about to return
  wgot,     \* the moves each worker has been returned
  thr,      \* the Thread objects of the pool, by idx
  sps,      \* splitPoints[] of every thread
  poolMutex, \* owner of Threads.mutex, Free when nobody holds it
  opts,     \* pool size, Max Threads per Split Point, FakeSplit, and the
            \* most moves a picker handed to split() has left, at the root and below
            \* a split point
  splitsLeft, \* the calls of split() the run may still make
  uiPc,     \* where the UI thread is in start_thinking()
  call,     \* the arguments of the start_thinking() call in progress
  searchesLeft, \* the calls of start_thinking() the run may still make
  searchesRun, \* the calls of Search::think() the main thread has made
  thinking, \* main()->thinking
  mainPc,   \* where the main thread is in MainThread::idle_loop()
  mainMutex, \* owner of main()->mutex, Free when nobody holds it
  Signals,  \* Search::Signals
  RootMoves, \* Search::RootMoves
  Options,  \* the UCI options map: currentValue of every option, by name
  Threads,  \* the ThreadPool object: the fields read_uci_options() sets
  exit,     \* ThreadBase::exit of the timer and of every thread of the pool
  loops,    \* where the timer and every slave is in its idle_loop(), and the
            \* owner of its mutex
  timer,    \* TimerThread::msec, and what the timer last did
  closer,   \* where the thread that runs ThreadPool::exit() is
  msecPc,   \* where the search is in writing timer->msec
  assigned  \* the last call of Option::operator=: its option, its value, what
            \* held before it and how often it ran on_change

pickerVars == <<pos, junk, mp, args, phases, log, lock, wpc, wm, wgot>>

fabricVars == <<thr, sps, poolMutex, opts, splitsLeft>>

thinkVars ==
  <<uiPc, call, searchesLeft, searchesRun, thinking, mainPc, mainMutex,
    Signals, RootMoves>>

engineVars ==
  <<Options, Threads, exit, loops, timer, closer, msecPc, assigned>>

vars == <<pickerVars, fabricVars, thinkVars, engineVars>>

\* No mutex owner.
Free == 0 - 1

\* The specifications of the move picker have no thread pool.
NoFabric ==
  /\ thr = << >>
  /\ sps = << >>
  /\ poolMutex = Free
  /\ opts = [size |-> 0, maxThreadsPerSplitPoint |-> 0, fake |-> FALSE,
             rootMoves |-> 0, spMoves |-> 0]
  /\ splitsLeft = 0

\* No UI thread and no main thread in the run.
NoThink ==
  /\ uiPc = "off"
  /\ call = << >>
  /\ searchesLeft = 0
  /\ searchesRun = 0
  /\ thinking = FALSE
  /\ mainPc = "off"
  /\ mainMutex = Free
  /\ Signals = << >>
  /\ RootMoves = << >>

MainThreadId == 0

\* The timer is not a thread of the pool and has no idx; this names it.
TimerId == 99

\* The threads of the pool ThreadPool::exit() deletes, the main thread
\* included.
ExitPool == 2

ExitSlaves == 1..(ExitPool - 1)

ExitIds == {TimerId} \cup {MainThreadId} \cup ExitSlaves

\* Nobody is asked to exit, and there is no timer, no slave and no
\* ThreadPool::exit() in the run.
NoExit ==
  /\ exit = [t \in ExitIds |-> FALSE]
  /\ loops = << >>
  /\ timer = << >>
  /\ closer = << >>
  /\ msecPc = "off"

\* No options map and no pool object in the run.
NoOptions ==
  /\ Options = << >>
  /\ Threads = << >>
  /\ assigned = << >>

NoEngine ==
  /\ NoOptions
  /\ NoExit

Workers == 1..NumWorkers

\* The index in l of the first call that returned MOVE_NONE, 0 if none did.
FirstNone(l) ==
  IF \E i \in 1..Len(l) : l[i].move = MOVE_NONE
  THEN CHOOSE i \in 1..Len(l) :
         /\ l[i].move = MOVE_NONE
         /\ \A j \in 1..(i - 1) : l[j].move # MOVE_NONE
  ELSE 0

\* The calls made after the first call that returned MOVE_NONE.
ExtraCalls(l) == IF FirstNone(l) = 0 THEN 0 ELSE Len(l) - FirstNone(l)

InitPicker(a) ==
  /\ args = a
  /\ pos = a.pos
  /\ junk = a.junk
  /\ mp = Construct(a)
  /\ phases = <<current_move_type(mp, junk)>>
  /\ log = << >>

\* What a call leaves in the log: the move returned, current_move_type() and
\* phaseIndex after the call, the caller, and whether get_next_move() ran.
LogEntry(move, picker, j, w, pulled) ==
  [move |-> move, phase |-> current_move_type(picker, j),
   idx |-> picker.phaseIndex, w |-> w, pulled |-> pulled]

InitWorkers ==
  /\ lock = 0
  /\ wpc = [w \in Workers |-> "idle"]
  /\ wm = [w \in Workers |-> MOVE_NONE]
  /\ wgot = [w \in Workers |-> << >>]

\* Main search nodes: every position of captures and quiet moves, every
\* tt move, and as mate killer none, the first move or the last move.  The
\* unwritten memory varies in the first context only.
MainInput ==
  \E c \in Contexts :
    \E k \in [Moves -> {"none", "capG", "capB", "quiet"}] :
      \E P \in PinSets(k) :
        \E ttm \in 0..NumMoves, mk \in {MOVE_NONE, 1, NumMoves} :
          \E j \in IF c.tab = "flat" THEN JunkValues ELSE {BenignJunk} :
            InitPicker(CtorInput([check |-> FALSE, kind |-> k, pinned |-> P,
                           tab |-> c.tab, ep |-> FALSE, pawn7 |-> FALSE],
                          c.pv, ttm, mk, c.killers, 1, NoEvalInfo, j))

\* Nodes in check.
EvasionInput ==
  \E k \in [Moves -> {"none", "capG", "capB", "quiet"}] :
    \E P \in PinSets(k) :
      \E t \in {"flat", "asc"}, ttm \in 0..NumMoves, d \in {0, 1} :
        InitPicker(CtorInput([check |-> TRUE, kind |-> k, pinned |-> P,
                       tab |-> t, ep |-> FALSE, pawn7 |-> FALSE],
                      TRUE, ttm, MOVE_NONE, <<MOVE_NONE, MOVE_NONE>>, d,
                      NoEvalInfo, BenignJunk))

\* Quiescence nodes: depth 0 or below, with or without the no-captures hint.
QsearchInput ==
  \E k \in [Moves -> {"none", "capG", "quiet", "check"}] :
    \E P \in PinSets(k) :
      \E t \in {"asc", "promo"}, ttm \in {MOVE_NONE, 1}, d \in {-1, 0},
         ei \in {NoEvalInfo, QuietEvalInfo} :
        InitPicker(CtorInput([check |-> FALSE, kind |-> k, pinned |-> P,
                       tab |-> t, ep |-> FALSE, pawn7 |-> FALSE],
                      FALSE, ttm, MOVE_NONE, <<MOVE_NONE, MOVE_NONE>>, d,
                      ei, BenignJunk))

PickerInput == MainInput \/ EvasionInput \/ QsearchInput

---------------------------------------------------------------------------
(* Spec: one caller draws moves with get_next_move() *)

Init ==
  /\ PickerInput
  /\ InitWorkers
  /\ NoFabric
  /\ NoThink
  /\ NoEngine

\* A call of get_next_move().  The search stops calling at the first
\* MOVE_NONE; the model lets a caller go on for MaxExtraCalls calls, as long
\* as the cursor stays inside the written part of PhaseTable.
NextMove ==
  /\ ExtraCalls(log) < MaxExtraCalls
  /\ mp.phaseIndex < LastWrittenIndex
  /\ LET r == get_next_move(mp, pos, junk)
     IN  /\ mp' = r.mp
         /\ phases' = phases \o r.entered
         /\ log' = Append(log, LogEntry(r.move, r.mp, junk, 0, TRUE))
  /\ UNCHANGED <<pos, junk, args, lock, wpc, wm, wgot>>
  /\ UNCHANGED <<fabricVars, thinkVars, engineVars>>

Next == NextMove

Spec == Init /\ [][Next]_vars

---------------------------------------------------------------------------
(* SpecCtor: the constructor on every combination of its deciding inputs *)

MaxDepth == 2

CtorDepths == (0 - MaxDepth)..MaxDepth

\* The object before its constructor has run.
Unconstructed == [finished |-> FALSE]

InitArgs(a) ==
  /\ args = a
  /\ pos = a.pos
  /\ junk = a.junk
  /\ mp = Unconstructed
  /\ phases = << >>
  /\ log = << >>

\* Every combination of in-check, depth, eval info, en-passant square and
\* pawn on the 7th rank; the moves of the position play no part.
CtorArgs ==
  \E chk, ep, p7, present, att, spec \in BOOLEAN :
    \E d \in CtorDepths, j \in JunkValues :
      InitArgs(CtorInput([check |-> chk, kind |-> [m \in Moves |-> "quiet"],
                     pinned |-> {}, tab |-> "flat", ep |-> ep, pawn7 |-> p7],
                    FALSE, MOVE_NONE, MOVE_NONE, <<MOVE_NONE, MOVE_NONE>>, d,
                    [present |-> present, attacksThem |-> att,
                     specialized |-> spec], j))

InitCtor ==
  /\ CtorArgs
  /\ InitWorkers
  /\ NoFabric
  /\ NoThink
  /\ NoEngine

ConstructPicker ==
  /\ phases = << >>
  /\ mp' = Construct(args)
  /\ phases' = <<current_move_type(mp', junk)>>
  /\ UNCHANGED <<pos, junk, args, log, lock, wpc, wm, wgot>>
  /\ UNCHANGED <<fabricVars, thinkVars, engineVars>>

NextCtor == ConstructPicker

SpecCtor == InitCtor /\ [][NextCtor]_vars

---------------------------------------------------------------------------
(* SpecLocked: the workers of a split point share one picker *)

\* The nodes a split point is made at: main search nodes and nodes in check.
\* The unwritten memory varies for the pickers without tt move and mate killer.
SplitInput ==
  \/ \E k \in [Moves -> {"none", "capG", "capB", "quiet"}] :
       \E P \in PinSets(k) :
         \E ttm \in {MOVE_NONE, 1}, mk \in {MOVE_NONE, NumMoves} :
           \E j \in IF ttm = mk THEN JunkValues ELSE {BenignJunk} :
             InitPicker(CtorInput([check |-> FALSE, kind |-> k, pinned |-> P,
                            tab |-> "flat", ep |-> FALSE, pawn7 |-> FALSE],
                           TRUE, ttm, mk, <<MOVE_NONE, MOVE_NONE>>, 1,
                           NoEvalInfo, j))
  \/ \E k \in [Moves -> {"none", "capG", "quiet"}] :
       InitPicker(CtorInput([check |-> TRUE, kind |-> k, pinned |-> {},
                      tab |-> "asc", ep |-> FALSE, pawn7 |-> FALSE],
                     FALSE, MOVE_NONE, MOVE_NONE, <<MOVE_NONE, MOVE_NONE>>, 1,
                     NoEvalInfo, BenignJunk))

InitLocked ==
  /\ SplitInput
  /\ InitWorkers
  /\ NoFabric
  /\ NoThink
  /\ NoEngine

\* lock_grab(&lock).  A worker stops calling some time after the picker has
\* run dry: MaxExtraCalls calls are made after the first MOVE_NONE.
LockGrab(w) ==
  /\ wpc[w] = "idle"
  /\ lock = 0
  /\ ExtraCalls(log) < MaxExtraCalls
  /\ mp.finished \/ mp.phaseIndex < LastWrittenIndex
  /\ lock' = w
  /\ wpc' = [wpc EXCEPT ![w] = "locked"]
  /\ UNCHANGED <<pos, junk, mp, args, phases, log, wm, wgot>>
  /\ UNCHANGED <<fabricVars, thinkVars, engineVars>>

\* The section under the lock: the test of finished, the call of
\* get_next_move() and the setting of finished.
Pull(w) ==
  /\ wpc[w] = "locked"
  /\ lock = w
  /\ LET r == LockedSection(mp, pos, junk)
     IN  /\ mp' = r.mp
         /\ phases' = phases \o r.entered
         /\ log' = Append(log, LogEntry(r.move, r.mp, junk, w, r.pulled))
         /\ wm' = [wm EXCEPT ![w] = r.move]
  /\ wpc' = [wpc EXCEPT ![w] = "release"]
  /\ UNCHANGED <<pos, junk, args, lock, wgot>>
  /\ UNCHANGED <<fabricVars, thinkVars, engineVars>>

\* lock_release(&lock) and the return of the move.
LockRelease(w) ==
  /\ wpc[w] = "release"
  /\ lock = w
  /\ lock' = 0
  /\ wpc' = [wpc EXCEPT ![w] = "idle"]
  /\ wgot' = [wgot EXCEPT ![w] = Append(@, wm[w])]
  /\ UNCHANGED <<pos, junk, mp, args, phases, log, wm>>
  /\ UNCHANGED <<fabricVars, thinkVars, engineVars>>

NextLocked ==
  \E w \in Workers : LockGrab(w) \/ Pull(w) \/ LockRelease(w)

SpecLocked == InitLocked /\ [][NextLocked]_vars

---------------------------------------------------------------------------
(* Vocabulary of the properties *)

\* The row the constructor chose.
StartIndex == Construct(args).phaseIndex

\* The calls up to the first MOVE_NONE (all calls, if there was none yet).
UntilStop(i) == FirstNone(log) = 0 \/ i < FirstNone(log)

Stopped == FirstNone(log) > 0

\* The calls that returned a move.
Emissions == {i \in 1..Len(log) : log[i].move # MOVE_NONE}

BucketPhases == {"PH_GOOD_CAPTURES", "PH_NONCAPTURES", "PH_BAD_CAPTURES"}

\* No assert of movepick.cpp has failed so far: PH_EVASIONS was entered only
\* in check, the other generating phases only out of check.  (A debug build
\* stops at a failed assert, a release build goes on.)
AssertsHeld ==
  \A n \in 2..Len(phases) :
    /\ phases[n] = "PH_EVASIONS" => pos.check
    /\ phases[n] \in BucketPhases \cup {"PH_QCAPTURES", "PH_QCHECKS"} => ~pos.check

---------------------------------------------------------------------------
(* C1 *)

\* C1: over the whole sequence of get_next_move() calls on one picker no move
\* value other than MOVE_NONE is returned twice.  Stated here for the runs
\* that read no unwritten memory and fail no assert, where a repeated move
\* can only come from the calls made after the first MOVE_NONE.
C1_NoDuplicateEmission ==
  (junk = BenignJunk /\ AssertsHeld) =>
    \A i, j \in Emissions : i # j => log[i].move # log[j].move

---------------------------------------------------------------------------
(* C2 *)

\* C2: once a call has returned MOVE_NONE, every later call returns MOVE_NONE
\* too, current_move_type() stays PH_STOP and the cursor does not move.
\* Stated for the runs in which no assert fails.
C2_StopAbsorbing ==
  \A i \in 1..Len(log) :
    (AssertsHeld /\ Stopped /\ i > FirstNone(log)) =>
      /\ log[i].move = MOVE_NONE
      /\ log[i].phase = "PH_STOP"
      /\ log[i].idx = log[FirstNone(log)].idx

---------------------------------------------------------------------------
(* C5 *)

\* C5: in a MainSearch picker a move returned in PH_TT_MOVE or PH_MATE_KILLER
\* is not returned again in PH_GOOD_CAPTURES, PH_NONCAPTURES or
\* PH_BAD_CAPTURES, and PH_MATE_KILLER never returns the tt move.
C5_TTSuppression ==
  StartIndex = MainSearchPhaseIndex =>
    /\ \A i, j \in Emissions :
         (/\ i < j
          /\ log[i].phase \in {"PH_TT_MOVE", "PH_MATE_KILLER"}
          /\ log[j].phase \in BucketPhases)
         => log[j].move # log[i].move
    /\ \A i \in Emissions :
         log[i].phase = "PH_MATE_KILLER" => log[i].move # args.ttm

\* A main search picker whose tt move is a capture and whose mate killer is a
\* quiet move has returned both in their own phases and has then drained the
\* three buckets.
C5_Witness ==
  /\ StartIndex = MainSearchPhaseIndex
  /\ Stopped
  /\ args.ttm \in Moves /\ args.ss.mateKiller \in Moves
  /\ IsCapture(pos, args.ttm)
  /\ pos.kind[args.ss.mateKiller] = "quiet"
  /\ \E i, j \in Emissions :
       /\ log[i].phase = "PH_TT_MOVE" /\ log[i].move = args.ttm
       /\ log[j].phase = "PH_MATE_KILLER" /\ log[j].move = args.ss.mateKiller
  /\ \E i \in Emissions : log[i].phase \in BucketPhases

---------------------------------------------------------------------------
(* C6 *)

\* C6: a MainSearch picker, and an Evasions picker on a position in check,
\* has returned exactly the legal moves of the position, each once, when it
\* first returns MOVE_NONE.
C6_PhaseCompleteness ==
  (StartIndex \in {MainSearchPhaseIndex, EvasionsPhaseIndex} /\ Stopped) =>
    /\ FirstNone(log) - 1 = Cardinality(LegalMoves(pos))
    /\ {log[i].move : i \in 1..(FirstNone(log) - 1)} = LegalMoves(pos)

\* The same for the pickers that read no unwritten memory.
C6_CompleteInBounds ==
  junk = BenignJunk => C6_PhaseCompleteness

---------------------------------------------------------------------------
(* C7 *)

\* C7: every move returned has passed the legality test of its phase with the
\* cached pinned set: move_is_legal in PH_TT_MOVE and PH_MATE_KILLER,
\* pl_move_is_legal in the captures, noncaptures and checks phases; in
\* PH_EVASIONS it is a move of the evasion generator.
C7_Legality ==
  \A i \in Emissions :
    CASE log[i].phase \in {"PH_TT_MOVE", "PH_MATE_KILLER"} ->
           move_is_legal(pos, log[i].move, mp.pinned)
      [] log[i].phase \in BucketPhases \cup {"PH_QCAPTURES", "PH_QCHECKS"} ->
           pl_move_is_legal(pos, log[i].move, mp.pinned, junk)
      [] log[i].phase = "PH_EVASIONS" ->
           \E k \in DOMAIN generate_evasions(pos) :
             generate_evasions(pos)[k].move = log[i].move
      [] OTHER -> FALSE

\* A picker has drained a bucket that held a pseudo-legal capture the pinned
\* test rejects, and has returned another capture from it.
C7_Witness ==
  /\ Stopped
  /\ \E m \in pos.pinned : pos.kind[m] = "capG"
  /\ \E i \in Emissions : log[i].phase \in {"PH_GOOD_CAPTURES", "PH_QCAPTURES"}

---------------------------------------------------------------------------
(* C8 *)

\* The score score_captures is specified to give a capture.
CaptureScore(m) ==
  IF see(pos, m) >= 0
  THEN (IF move_promotion(pos, m) THEN QueenValueMidgame ELSE MvvLva(pos, m))
  ELSE see(pos, m)

\* The captures PH_GOOD_CAPTURES may return.
EligibleCaptures ==
  {m \in Moves : /\ IsCapture(pos, m)
                 /\ m \notin pos.pinned
                 /\ m # mp.ttMove
                 /\ m # mp.mateKiller}

GoodBeforeBad ==
  /\ \A i \in Emissions :
       (UntilStop(i) /\ log[i].phase = "PH_GOOD_CAPTURES") =>
         log[i].move \in Moves /\ see(pos, log[i].move) >= 0
  /\ \A i, j \in Emissions :
       (/\ UntilStop(i) /\ UntilStop(j)
        /\ log[i].phase = "PH_GOOD_CAPTURES"
        /\ log[j].phase = "PH_BAD_CAPTURES") => i < j

LosingOnlyInBadCaptures ==
  \A i \in Emissions :
    (/\ UntilStop(i)
     /\ log[i].move \in Moves
     /\ IsCapture(pos, log[i].move)
     /\ see(pos, log[i].move) < 0)
    => /\ log[i].phase = "PH_BAD_CAPTURES"
       /\ \A j \in Emissions :
            (UntilStop(j)
             /\ log[j].phase \in {"PH_GOOD_CAPTURES", "PH_NONCAPTURES"}) => j < i

BestGoodCaptureFirst ==
  \A i \in Emissions :
    (/\ UntilStop(i)
     /\ log[i].phase = "PH_GOOD_CAPTURES"
     /\ \A h \in Emissions : h < i => log[h].phase # "PH_GOOD_CAPTURES")
    => /\ log[i].move \in EligibleCaptures
       /\ \A c \in EligibleCaptures : CaptureScore(c) <= CaptureScore(log[i].move)

\* C8: in a MainSearch picker every move returned in PH_GOOD_CAPTURES has
\* SEE >= 0 and comes before every move returned in PH_BAD_CAPTURES, a capture
\* with SEE < 0 is returned only in PH_BAD_CAPTURES, after every good capture
\* and noncapture, and the first move of PH_GOOD_CAPTURES is the best scored
\* capture that is legal and neither tt move nor mate killer.
C8_CaptureOrdering ==
  StartIndex = MainSearchPhaseIndex =>
    /\ GoodBeforeBad
    /\ LosingOnlyInBadCaptures
    /\ BestGoodCaptureFirst

\* The same for the pickers with neither a tt move nor a mate killer, which
\* have no phase of their own for a losing capture.
C8_OrderingWithoutHints ==
  (args.ttm = MOVE_NONE /\ args.ss.mateKiller = MOVE_NONE) => C8_CaptureOrdering

\* What holds of the pickers that read no unwritten memory: as C8, but a
\* losing capture that is the tt move or the mate killer is returned in
\* PH_TT_MOVE or PH_MATE_KILLER.
C8_OrderingInBounds ==
  (junk = BenignJunk /\ StartIndex = MainSearchPhaseIndex) =>
    /\ GoodBeforeBad
    /\ BestGoodCaptureFirst
    /\ \A i \in Emissions :
         (/\ UntilStop(i)
          /\ log[i].move \in Moves
          /\ IsCapture(pos, log[i].move)
          /\ see(pos, log[i].move) < 0)
         => \/ /\ log[i].phase = "PH_TT_MOVE" /\ log[i].move = args.ttm
            \/ /\ log[i].phase = "PH_MATE_KILLER"
               /\ log[i].move = args.ss.mateKiller
            \/ /\ log[i].phase = "PH_BAD_CAPTURES"
               /\ \A j \in Emissions :
                    (UntilStop(j)
                     /\ log[j].phase \in {"PH_GOOD_CAPTURES", "PH_NONCAPTURES"})
                    => j < i

---------------------------------------------------------------------------
(* C10 *)

\* The rows as the specification lists them.
RowPhases(start) ==
  CASE start = MainSearchPhaseIndex ->
         <<"PH_TT_MOVE", "PH_MATE_KILLER", "PH_GOOD_CAPTURES", "PH_NONCAPTURES",
           "PH_BAD_CAPTURES", "PH_STOP">>
    [] start = EvasionsPhaseIndex -> <<"PH_EVASIONS", "PH_STOP">>
    [] start = QsearchWithChecksPhaseIndex ->
         <<"PH_QCAPTURES", "PH_QCHECKS", "PH_STOP">>
    [] start = QsearchNoCapturesPhaseIndex -> <<"PH_QCHECKS", "PH_STOP">>
    [] start = QsearchWithoutChecksPhaseIndex -> <<"PH_QCAPTURES", "PH_STOP">>
    [] start = NoMovesPhaseIndex -> <<"PH_STOP">>

IsPrefix(s, t) == Len(s) <= Len(t) /\ s = SubSeq(t, 1, Len(s))

\* The picker has not been called again after its first MOVE_NONE.
NoExtraCall == ExtraCalls(log) = 0

---------------------------------------------------------------------------
(* C9 *)

\* The phases PhaseTable holds behind the slot start, up to the first PH_STOP.
RECURSIVE RowFrom(_)
RowFrom(i) ==
  IF PhaseTable[i + 1] = "PH_STOP" THEN <<"PH_STOP">>
  ELSE <<PhaseTable[i + 1]>> \o RowFrom(i + 1)

Constructed == phases # << >>

\* C9: the constructor selects the row by (in check, sign of depth, hint):
\* in check Evasions; else depth > 0 MainSearch; depth = 0 QsearchNoCaptures
\* with the hint and QsearchWithChecks without; depth < 0 NoMoves with the
\* hint and QsearchWithoutChecks without.  The hint is that eval info is
\* given, the attack set misses the opponent's pieces, no specialized
\* evaluator applies, there is no en-passant square and no pawn on the 7th;
\* without eval info it is false.
C9_RowSelection ==
  Constructed =>
    LET hint == /\ args.ei.present
                /\ ~args.ei.attacksThem
                /\ ~args.ei.specialized
                /\ ~pos.ep
                /\ ~pos.pawn7
        row == IF pos.check THEN <<"PH_EVASIONS", "PH_STOP">>
               ELSE IF args.d > 0
                 THEN <<"PH_TT_MOVE", "PH_MATE_KILLER", "PH_GOOD_CAPTURES",
                        "PH_NONCAPTURES", "PH_BAD_CAPTURES", "PH_STOP">>
               ELSE IF args.d = 0
                 THEN (IF hint THEN <<"PH_QCHECKS", "PH_STOP">>
                       ELSE <<"PH_QCAPTURES", "PH_QCHECKS", "PH_STOP">>)
               ELSE (IF hint THEN <<"PH_STOP">>
                     ELSE <<"PH_QCAPTURES", "PH_STOP">>)
    IN  /\ RowFrom(mp.phaseIndex + 1) = row
        /\ mp.phaseIndex \in {MainSearchPhaseIndex, EvasionsPhaseIndex,
                              QsearchWithChecksPhaseIndex,
                              QsearchNoCapturesPhaseIndex,
                              QsearchWithoutChecksPhaseIndex, NoMovesPhaseIndex}
        /\ ~args.ei.present =>
             mp.phaseIndex \notin {QsearchNoCapturesPhaseIndex, NoMovesPhaseIndex}

\* A picker built at depth 0 with the hint, and one built below depth 0
\* without eval info, are both covered by the states of this shape.
C9_Witness ==
  /\ Constructed
  /\ ~pos.check
  /\ args.d = 0
  /\ args.ei.present /\ ~args.ei.attacksThem /\ ~args.ei.specialized
  /\ ~pos.ep /\ ~pos.pawn7
  /\ mp.phaseIndex = QsearchNoCapturesPhaseIndex

---------------------------------------------------------------------------
(* C3, C4 *)

\* C3: the first locked call whose get_next_move() returns MOVE_NONE sets
\* finished; every later locked call returns MOVE_NONE without calling
\* get_next_move(); finished is never reset.
C3_FinishedLatch ==
  /\ mp.finished <=> (\E i \in 1..Len(log) : log[i].move = MOVE_NONE)
  /\ \A i, j \in 1..Len(log) :
       (i < j /\ log[i].move = MOVE_NONE) =>
         /\ log[i].pulled <=> i = FirstNone(log)
         /\ log[j].move = MOVE_NONE
         /\ ~log[j].pulled
         /\ log[j].idx = log[i].idx

\* After one worker pulled MOVE_NONE another worker called and was turned
\* away by finished.
C3_Witness ==
  \E i, j \in 1..Len(log) :
    /\ i < j
    /\ log[i].move = MOVE_NONE /\ log[i].pulled
    /\ log[j].w # log[i].w
    /\ log[j].move = MOVE_NONE /\ ~log[j].pulled
    /\ \E h \in 1..Len(log) : log[h].move # MOVE_NONE

\* The moves get_next_move() returns to one caller, up to its first MOVE_NONE.
RECURSIVE SingleThreadedFrom(_)
SingleThreadedFrom(picker) ==
  LET r == get_next_move(picker, pos, junk)
  IN  IF r.move = MOVE_NONE THEN << >>
      ELSE <<r.move>> \o SingleThreadedFrom(r.mp)

SingleThreaded == SingleThreadedFrom(Construct(args))

Moved(e) == e.move # MOVE_NONE

MovesOf(l) == [i \in 1..Len(l) |-> l[i].move]

\* The moves handed out under the lock so far, in the order of the lock.
Granted == MovesOf(SelectSeq(log, Moved))

\* What worker w has been returned, and what it holds on its way out.
Received(w) ==
  wgot[w] \o (IF wpc[w] = "release" THEN <<wm[w]>> ELSE << >>)

\* Every call of the log has returned its move to the worker that made it.
EachToItsCaller ==
  \A w \in Workers :
    LET Mine(e) == e.w = w
    IN  Received(w) = MovesOf(SelectSeq(log, Mine))

\* The moves handed out are those of the single caller, in its order.
SameAsSingleThreaded ==
  /\ IsPrefix(Granted, SingleThreaded)
  /\ mp.finished => Granted = SingleThreaded

NoMoveGrantedTwice ==
  \A i, j \in 1..Len(Granted) : i # j => Granted[i] # Granted[j]

---------------------------------------------------------------------------
(* The thread pool and its split points (thread.cpp) *)

\* Calls of split() in one run of the small pool, where splits nest.
MaxSplits == 3

\* Calls of split() in one run of the large pool.
LargePoolSplits == 1

\* Calls of split() in one run of the small pool where a split point of two
\* moves has a split point with a move below it.
NestedSplits == 2

\* The pool and the number of split() calls of the runs with sleeping threads.
SleepPool == 2
SleepSplits == 2

\* Moves left in the move picker handed to a split: the most of any run, the
\* most at every split of the runs whose splits all have work, and the most
\* below a split point in the runs whose root split has MaxSpMoves.
MaxSpMoves == 2

NestedSpMoves == 1

LeafSpMoves == 0

\* Sizes of the pool: a small one, in which a master gets help from the slaves
\* of its own split point, and one with more idle threads than a split point
\* admits.
SmallPool == 3

LargePool == 5

\* "Max Threads per Split Point": the smallest value the option admits.
MaxThreadsPerSplitPointMin == 4

\* nullptr, for a SplitPoint* and a Thread*.
Null == << >>

NoThread == 0 - 1

\* The specifications of the thread pool have no move picker of movepick.cpp.
NoPicker ==
  /\ pos = << >>
  /\ junk = BenignJunk
  /\ mp = Unconstructed
  /\ args = << >>
  /\ phases = << >>
  /\ log = << >>
  /\ InitWorkers

Pool == 0..(opts.size - 1)

\* The values of idx in the largest pool.
ThreadIds == 0..(LargePool - 1)

\* splitPoints[i] of thread t is named <<t, i>>.
SP(id) == sps[id[1]][id[2] + 1]

\* A slot of splitPoints[] nobody has used.
UnusedSplitPoint ==
  [masterThread |-> NoThread, parentSplitPoint |-> Null, slavesMask |-> {},
   nodes |-> 0, cutoff |-> FALSE, movesLeft |-> 0, mutex |-> Free]

\* Thread::Thread()
ThreadCtor ==
  [searching |-> FALSE, splitPointsSize |-> 0, activeSplitPoint |-> Null,
   activePosition |-> 0, frames |-> << >>, recruitedFor |-> Null,
   mutex |-> Free]

\* The frame a thread is executing, the last of its call stack.
Top(t) == thr[t].frames[Len(thr[t].frames)]

InFrame(t, kind, pc) ==
  /\ t \in Pool
  /\ thr[t].frames # << >>
  /\ Top(t).kind = kind
  /\ Top(t).pc = pc

SetTop(T, f) == [T EXCEPT !.frames[Len(T.frames)] = f]

Push(T, f) == [T EXCEPT !.frames = Append(@, f)]

Pop(T) == [T EXCEPT !.frames = SubSeq(@, 1, Len(@) - 1)]

\* An is_available_to that does not look at searching.
is_available_to_SearchingIgnored(t, master) ==
  LET size == thr[t].splitPointsSize
  IN  size = 0 \/ master \in SP(<<t, size - 1>>).slavesMask

\* Thread::is_available_to() without the helpful master test.
is_available_to_AnyIdle(t, master) == ~thr[t].searching

\* Thread::is_available_to(master), called on thread t.
is_available_to(t, master) ==
  IF thr[t].searching THEN FALSE
  ELSE LET size == thr[t].splitPointsSize
       IN  size = 0 \/ master \in SP(<<t, size - 1>>).slavesMask

\* ThreadPool::available_slave(master): the first thread of the pool that is
\* available, NoThread for nullptr.
\* A pool that books the first thread that is not searching, whatever is on
\* that thread's split point stack.
available_slave_IgnoringStack(master) ==
  LET idle == {i \in Pool : ~thr[i].searching}
  IN  IF idle = {} THEN NoThread
      ELSE CHOOSE i \in idle : \A j \in idle : i <= j

RECURSIVE AvailableSlaveFrom(_, _)
AvailableSlaveFrom(i, master) ==
  IF i \notin Pool THEN NoThread
  ELSE IF is_available_to(i, master) THEN i
  ELSE AvailableSlaveFrom(i + 1, master)

available_slave(master) == AvailableSlaveFrom(0, master)

\* A cutoff test that reads the active split point and none of its ancestors.
CutoffFrom_ActiveOnly(sp) ==
  IF sp = Null THEN FALSE
  ELSE SP(sp).cutoff

\* Thread::cutoff_occurred(), from a split point upwards.
RECURSIVE CutoffFrom(_)
CutoffFrom(sp) ==
  IF sp = Null THEN FALSE
  ELSE IF SP(sp).cutoff THEN TRUE
  ELSE CutoffFrom(SP(sp).parentSplitPoint)

cutoff_occurred(t) == CutoffFrom(thr[t].activeSplitPoint)

\* The frames of a call stack.  A search frame owns a Position (its node
\* counter); sp is the split point it searches, Null at the root.
SearchFrame(pc, sp) == [kind |-> "search", pc |-> pc, sp |-> sp, nodes |-> 0]

IdleFrame(this_sp) ==
  [kind |-> "idle", pc |-> "loop", this_sp |-> this_sp, sp |-> Null]

\* A call of split(): its split point and locals, and what held at the call.
SplitFrame(t, fake) ==
  [kind |-> "split", pc |-> "lock_pool",
   sp |-> <<t, thr[t].splitPointsSize>>,
   fake |-> fake, slavesCnt |-> 0, slave |-> NoThread, write |-> 1,
   sizeAtCall |-> thr[t].splitPointsSize,
   activeAtCall |-> thr[t].activeSplitPoint,
   nodesAtCall |-> Top(t).nodes,
   booked |-> << >>,
   idled |-> FALSE]

\* The pool after init() and read_uci_options(), the main thread in think().
InitPool(size, fake, splits, rootMoves, moves) ==
  /\ opts = [size |-> size,
             maxThreadsPerSplitPoint |-> MaxThreadsPerSplitPointMin,
             fake |-> fake,
             rootMoves |-> rootMoves,
             spMoves |-> moves]
  /\ thr = [t \in 0..(size - 1) |->
              IF t = 0
              THEN [ThreadCtor EXCEPT !.searching = TRUE,
                                      !.frames = <<SearchFrame("root", Null)>>]
              ELSE [ThreadCtor EXCEPT !.frames = <<IdleFrame(Null)>>]]
  /\ sps = [t \in 0..(size - 1) |-> [i \in 1..MaxSplits |-> UnusedSplitPoint]]
  /\ poolMutex = Free
  /\ splitsLeft = splits

---------------------------------------------------------------------------
(* Thread::split *)

SetSP(S, id, sp) == [S EXCEPT ![id[1]][id[2] + 1] = sp]

\* A split() that does not write sp.cutoff.
SplitBegin_CutoffKept(t) ==
  /\ t \in Pool
  /\ thr[t].frames # << >>
  /\ Top(t).kind = "search"
  /\ Top(t).pc \in {"root", "child"}
  /\ splitsLeft > 0
  /\ thr[t].searching
  /\ thr[t].splitPointsSize < MaxSplits
  /\ \E n \in 0..(IF thr[t].activeSplitPoint = Null THEN opts.rootMoves
                  ELSE opts.spMoves) :
       sps' = SetSP(sps, <<t, thr[t].splitPointsSize>>,
                    [masterThread |-> t,
                     parentSplitPoint |-> thr[t].activeSplitPoint,
                     slavesMask |-> {t},
                     nodes |-> 0,
                     cutoff |-> SP(<<t, thr[t].splitPointsSize>>).cutoff,
                     movesLeft |-> n,
                     mutex |-> SP(<<t, thr[t].splitPointsSize>>).mutex])
  /\ thr' = [thr EXCEPT ![t] = Push(@, SplitFrame(t, opts.fake))]
  /\ splitsLeft' = splitsLeft - 1
  /\ UNCHANGED <<poolMutex, opts, pickerVars, thinkVars, engineVars>>

\* The call and the initialization of the next free split point.  The search
\* calls split() from a node that is no split point node, with a move picker
\* that has some moves left.
SplitBegin(t) ==
  /\ t \in Pool
  /\ thr[t].frames # << >>
  /\ Top(t).kind = "search"
  /\ Top(t).pc \in {"root", "child"}
  /\ splitsLeft > 0
  /\ thr[t].searching
  /\ thr[t].splitPointsSize < MaxSplits
  /\ \E n \in 0..(IF thr[t].activeSplitPoint = Null THEN opts.rootMoves
                  ELSE opts.spMoves) :
       sps' = SetSP(sps, <<t, thr[t].splitPointsSize>>,
                    [masterThread |-> t,
                     parentSplitPoint |-> thr[t].activeSplitPoint,
                     slavesMask |-> {t},
                     nodes |-> 0,
                     cutoff |-> FALSE,
                     movesLeft |-> n,
                     mutex |-> SP(<<t, thr[t].splitPointsSize>>).mutex])
  /\ thr' = [thr EXCEPT ![t] = Push(@, SplitFrame(t, opts.fake))]
  /\ splitsLeft' = splitsLeft - 1
  /\ UNCHANGED <<poolMutex, opts, pickerVars, thinkVars, engineVars>>

\* A split() that enters the recruitment without waiting for Threads.mutex.
SplitLockPool_NoWait(t) ==
  /\ InFrame(t, "split", "lock_pool")
  /\ poolMutex' = t
  /\ thr' = [thr EXCEPT ![t] = SetTop(@, [Top(t) EXCEPT !.pc = "lock_sp"])]
  /\ UNCHANGED <<sps, opts, splitsLeft, pickerVars, thinkVars, engineVars>>

\* Threads.mutex.lock()
SplitLockPool(t) ==
  /\ InFrame(t, "split", "lock_pool")
  /\ poolMutex = Free
  /\ poolMutex' = t
  /\ thr' = [thr EXCEPT ![t] = SetTop(@, [Top(t) EXCEPT !.pc = "lock_sp"])]
  /\ UNCHANGED <<sps, opts, splitsLeft, pickerVars, thinkVars, engineVars>>

\* sp.mutex.lock() and the push of the split point.
SplitLockSp(t) ==
  /\ InFrame(t, "split", "lock_sp")
  /\ SP(Top(t).sp).mutex = Free
  /\ sps' = SetSP(sps, Top(t).sp, [SP(Top(t).sp) EXCEPT !.mutex = t])
  /\ thr' = [thr EXCEPT ![t] =
               SetTop([@ EXCEPT !.splitPointsSize = @ + 1,
                                !.activeSplitPoint = Top(t).sp,
                                !.activePosition = 0,
                                !.recruitedFor = Null],
                      [Top(t) EXCEPT !.slavesCnt = 1, !.pc = "scan"])]
  /\ UNCHANGED <<poolMutex, opts, splitsLeft, pickerVars, thinkVars, engineVars>>

\* A recruitment loop that tests slavesCnt++ in place of ++slavesCnt.
SplitScan_PostIncrement(t) ==
  /\ InFrame(t, "split", "scan")
  /\ LET slave == available_slave(t)
         cnt == IF slave # NoThread THEN Top(t).slavesCnt + 1
                ELSE Top(t).slavesCnt
         go == /\ slave # NoThread
               /\ Top(t).slavesCnt <= opts.maxThreadsPerSplitPoint
               /\ ~Top(t).fake
     IN  thr' = [thr EXCEPT ![t] =
                   SetTop(@, [Top(t) EXCEPT !.slave = slave,
                                            !.slavesCnt = cnt,
                                            !.pc = IF go THEN "recruit"
                                                   ELSE "decide"])]
  /\ UNCHANGED <<sps, poolMutex, opts, splitsLeft, pickerVars, thinkVars, engineVars>>

\* The condition of the while loop.
SplitScan(t) ==
  /\ InFrame(t, "split", "scan")
  /\ LET slave == available_slave(t)
         cnt == IF slave # NoThread THEN Top(t).slavesCnt + 1
                ELSE Top(t).slavesCnt
         go == /\ slave # NoThread
               /\ cnt <= opts.maxThreadsPerSplitPoint
               /\ ~Top(t).fake
     IN  thr' = [thr EXCEPT ![t] =
                   SetTop(@, [Top(t) EXCEPT !.slave = slave,
                                            !.slavesCnt = cnt,
                                            !.pc = IF go THEN "recruit"
                                                   ELSE "decide"])]
  /\ UNCHANGED <<sps, poolMutex, opts, splitsLeft, pickerVars, thinkVars, engineVars>>

\* A loop body that sets the slave's searching flag first.
RecruitWrites_SearchingFirst == <<"searching", "slavesMask", "activeSplitPoint">>

\* The writes of the body of the while loop, in program order:
\* sp.slavesMask |= 1ULL << slave->idx; slave->activeSplitPoint = &sp;
\* slave->searching = true, followed by slave->notify_one().
RecruitWrites == <<"slavesMask", "activeSplitPoint", "searching">>

\* One write of the body of the while loop.  booked records what held of the
\* slave when it was recruited, before the first write; recruitedFor records
\* for which split point the slave's searching was set, until the slave ends
\* its work there or publishes a split point of its own.
SplitRecruit(t) ==
  /\ InFrame(t, "split", "recruit")
  /\ LET s == Top(t).slave
         sp == Top(t).sp
         size == thr[s].splitPointsSize
         was == [slave |-> s,
                 available |-> is_available_to(s, t),
                 searching |-> thr[s].searching,
                 size |-> size,
                 topMask |-> IF size = 0 THEN {}
                             ELSE SP(<<s, size - 1>>).slavesMask]
         write == RecruitWrites[Top(t).write]
         last == Top(t).write = Len(RecruitWrites)
     IN  /\ sps' = IF write = "slavesMask"
                   THEN SetSP(sps, sp, [SP(sp) EXCEPT !.slavesMask = @ \cup {s}])
                   ELSE sps
         /\ thr' = [thr EXCEPT
                      ![s] = [@ EXCEPT
                                !.activeSplitPoint =
                                   IF write = "activeSplitPoint" THEN sp ELSE @,
                                !.searching =
                                   IF write = "searching" THEN TRUE ELSE @,
                                !.recruitedFor =
                                   IF write = "searching" THEN sp ELSE @],
                      ![t] = SetTop(@, [Top(t) EXCEPT
                                          !.booked = IF Top(t).write = 1
                                                     THEN Append(@, was) ELSE @,
                                          !.write = IF last THEN 1 ELSE @ + 1,
                                          !.pc = IF last THEN "scan"
                                                 ELSE "recruit"])]
  /\ UNCHANGED <<poolMutex, opts, splitsLeft, pickerVars, thinkVars, engineVars>>

\* A split() that enters the idle loop whatever the recruitment gave.
SplitDecide_AlwaysIdle(t) ==
  /\ InFrame(t, "split", "decide")
  /\ thr' = [thr EXCEPT ![t] = SetTop(@, [Top(t) EXCEPT !.pc = "unlock_sp"])]
  /\ UNCHANGED <<sps, poolMutex, opts, splitsLeft, pickerVars, thinkVars, engineVars>>

\* if (slavesCnt > 1 || Fake)
SplitDecide(t) ==
  /\ InFrame(t, "split", "decide")
  /\ thr' = [thr EXCEPT ![t] =
               SetTop(@, [Top(t) EXCEPT
                            !.pc = IF Top(t).slavesCnt > 1 \/ Top(t).fake
                                   THEN "unlock_sp" ELSE "restore"])]
  /\ UNCHANGED <<sps, poolMutex, opts, splitsLeft, pickerVars, thinkVars, engineVars>>

\* sp.mutex.unlock()
SplitUnlockSp(t) ==
  /\ InFrame(t, "split", "unlock_sp")
  /\ sps' = SetSP(sps, Top(t).sp, [SP(Top(t).sp) EXCEPT !.mutex = Free])
  /\ thr' = [thr EXCEPT ![t] = SetTop(@, [Top(t) EXCEPT !.pc = "unlock_pool"])]
  /\ UNCHANGED <<poolMutex, opts, splitsLeft, pickerVars, thinkVars, engineVars>>

\* Threads.mutex.unlock() and the call of Thread::idle_loop().
SplitEnterIdle(t) ==
  /\ InFrame(t, "split", "unlock_pool")
  /\ poolMutex' = Free
  /\ thr' = [thr EXCEPT ![t] =
               Push(SetTop(@, [Top(t) EXCEPT !.pc = "back", !.idled = TRUE]),
                    IdleFrame(IF thr[t].splitPointsSize # 0
                              THEN thr[t].activeSplitPoint ELSE Null))]
  /\ UNCHANGED <<sps, opts, splitsLeft, pickerVars, thinkVars, engineVars>>

\* A split() that takes the two mutexes in the other order after the idle
\* loop: sp.mutex first, Threads.mutex second.
SplitRelockPool_SpFirst(t) ==
  /\ InFrame(t, "split", "back")
  /\ IF SP(Top(t).sp).mutex # t
     THEN /\ SP(Top(t).sp).mutex = Free
          /\ sps' = SetSP(sps, Top(t).sp, [SP(Top(t).sp) EXCEPT !.mutex = t])
          /\ UNCHANGED <<thr, poolMutex>>
     ELSE /\ poolMutex = Free
          /\ poolMutex' = t
          /\ thr' = [thr EXCEPT ![t] =
                       SetTop(@, [Top(t) EXCEPT !.pc = "restore"])]
          /\ UNCHANGED sps
  /\ UNCHANGED <<opts, splitsLeft, pickerVars, thinkVars, engineVars>>

\* Threads.mutex.lock() after the idle loop.
SplitRelockPool(t) ==
  /\ InFrame(t, "split", "back")
  /\ poolMutex = Free
  /\ poolMutex' = t
  /\ thr' = [thr EXCEPT ![t] = SetTop(@, [Top(t) EXCEPT !.pc = "relock_sp"])]
  /\ UNCHANGED <<sps, opts, splitsLeft, pickerVars, thinkVars, engineVars>>

\* sp.mutex.lock() after the idle loop.
SplitRelockSp(t) ==
  /\ InFrame(t, "split", "relock_sp")
  /\ SP(Top(t).sp).mutex = Free
  /\ sps' = SetSP(sps, Top(t).sp, [SP(Top(t).sp) EXCEPT !.mutex = t])
  /\ thr' = [thr EXCEPT ![t] = SetTop(@, [Top(t) EXCEPT !.pc = "restore"])]
  /\ UNCHANGED <<poolMutex, opts, splitsLeft, pickerVars, thinkVars, engineVars>>

\* A restore that leaves activeSplitPoint as the idle loop left it.
SplitRestore_ActiveSplitPointKept(t) ==
  /\ InFrame(t, "split", "restore")
  /\ LET sp == Top(t).sp
         caller == Len(thr[t].frames) - 1
     IN  thr' = [thr EXCEPT ![t] =
                   SetTop([@ EXCEPT !.searching = TRUE,
                                    !.splitPointsSize = @ - 1,
                                    !.activePosition = caller,
                                    !.frames[caller].nodes = @ + SP(sp).nodes],
                          [Top(t) EXCEPT !.pc = "unlock"])]
  /\ UNCHANGED <<sps, poolMutex, opts, splitsLeft, pickerVars, thinkVars, engineVars>>

\* A restore that overwrites the node counter of pos with sp.nodes.
SplitRestore_NodesOverwritten(t) ==
  /\ InFrame(t, "split", "restore")
  /\ LET sp == Top(t).sp
         caller == Len(thr[t].frames) - 1
     IN  thr' = [thr EXCEPT ![t] =
                   SetTop([@ EXCEPT !.searching = TRUE,
                                    !.splitPointsSize = @ - 1,
                                    !.activeSplitPoint = SP(sp).parentSplitPoint,
                                    !.activePosition = caller,
                                    !.frames[caller].nodes = SP(sp).nodes],
                          [Top(t) EXCEPT !.pc = "unlock"])]
  /\ UNCHANGED <<sps, poolMutex, opts, splitsLeft, pickerVars, thinkVars, engineVars>>

\* The restoring of the master: searching, splitPointsSize, activeSplitPoint,
\* activePosition and the node counter of pos, the Position of the caller.
SplitRestore(t) ==
  /\ InFrame(t, "split", "restore")
  /\ LET sp == Top(t).sp
         caller == Len(thr[t].frames) - 1
     IN  thr' = [thr EXCEPT ![t] =
                   SetTop([@ EXCEPT !.searching = TRUE,
                                    !.splitPointsSize = @ - 1,
                                    !.activeSplitPoint = SP(sp).parentSplitPoint,
                                    !.activePosition = caller,
                                    !.frames[caller].nodes = @ + SP(sp).nodes],
                          [Top(t) EXCEPT !.pc = "unlock"])]
  /\ UNCHANGED <<sps, poolMutex, opts, splitsLeft, pickerVars, thinkVars, engineVars>>

\* sp.mutex.unlock(); Threads.mutex.unlock()
SplitUnlock(t) ==
  /\ InFrame(t, "split", "unlock")
  /\ sps' = SetSP(sps, Top(t).sp, [SP(Top(t).sp) EXCEPT !.mutex = Free])
  /\ poolMutex' = Free
  /\ thr' = [thr EXCEPT ![t] = SetTop(@, [Top(t) EXCEPT !.pc = "returned"])]
  /\ UNCHANGED <<opts, splitsLeft, pickerVars, thinkVars, engineVars>>

\* The return to the search.
SplitReturn(t) ==
  /\ InFrame(t, "split", "returned")
  /\ thr' = [thr EXCEPT ![t] = Pop(@)]
  /\ UNCHANGED <<sps, poolMutex, opts, splitsLeft, pickerVars, thinkVars, engineVars>>

---------------------------------------------------------------------------
(* Thread::idle_loop and the search of a split point (search.cpp) *)

\* The thread has been given work: it leaves the wait.
IdleStartWork(t) ==
  /\ InFrame(t, "idle", "loop")
  /\ thr[t].searching
  /\ thr' = [thr EXCEPT ![t] = SetTop(@, [Top(t) EXCEPT !.pc = "grab"])]
  /\ UNCHANGED <<sps, poolMutex, opts, splitsLeft, pickerVars, thinkVars, engineVars>>

\* Threads.mutex.lock(); sp = activeSplitPoint; Threads.mutex.unlock()
IdleGrab(t) ==
  /\ InFrame(t, "idle", "grab")
  /\ poolMutex = Free
  /\ thr' = [thr EXCEPT ![t] =
               SetTop(@, [Top(t) EXCEPT !.sp = thr[t].activeSplitPoint,
                                        !.pc = "lock_sp"])]
  /\ UNCHANGED <<sps, poolMutex, opts, splitsLeft, pickerVars, thinkVars, engineVars>>

\* sp->mutex.lock(); activePosition = &pos; the search of the split point
\* starts on a copy of the split point's position, with the mutex held.
IdleLockSp(t) ==
  /\ InFrame(t, "idle", "lock_sp")
  /\ SP(Top(t).sp).mutex = Free
  /\ sps' = SetSP(sps, Top(t).sp, [SP(Top(t).sp) EXCEPT !.mutex = t])
  /\ thr' = [thr EXCEPT ![t] =
               Push([SetTop(@, [Top(t) EXCEPT !.pc = "finish"])
                       EXCEPT !.activePosition = Len(thr[t].frames) + 1],
                    SearchFrame("sp_locked", Top(t).sp))]
  /\ UNCHANGED <<poolMutex, opts, splitsLeft, pickerVars, thinkVars, engineVars>>

\* Under the mutex the next move is drawn from the picker of the split point;
\* the mutex is released for the search of the move.
SpTakeMove(t) ==
  /\ InFrame(t, "search", "sp_locked")
  /\ SP(Top(t).sp).movesLeft > 0
  /\ sps' = SetSP(sps, Top(t).sp,
                  [SP(Top(t).sp) EXCEPT !.movesLeft = @ - 1, !.mutex = Free])
  /\ thr' = [thr EXCEPT ![t] = SetTop(@, [Top(t) EXCEPT !.pc = "child"])]
  /\ UNCHANGED <<poolMutex, opts, splitsLeft, pickerVars, thinkVars, engineVars>>

\* The recursive search of the move, on the thread's own position.
SpSearchChild(t) ==
  /\ InFrame(t, "search", "child")
  /\ thr' = [thr EXCEPT ![t] =
               SetTop(@, [Top(t) EXCEPT !.nodes = @ + 1, !.pc = "relock"])]
  /\ UNCHANGED <<sps, poolMutex, opts, splitsLeft, pickerVars, thinkVars, engineVars>>

\* Under the mutex again: a cutoff seen ends the participation; a score that
\* reaches beta sets the cutoff of the split point.
SpRelock(t) ==
  /\ InFrame(t, "search", "relock")
  /\ SP(Top(t).sp).mutex = Free
  /\ \E reachesBeta \in BOOLEAN :
       LET seen == cutoff_occurred(t)
           stop == seen \/ reachesBeta
       IN  /\ seen => ~reachesBeta
           /\ sps' = SetSP(sps, Top(t).sp,
                           [SP(Top(t).sp) EXCEPT
                              !.mutex = t,
                              !.cutoff = IF seen THEN @ ELSE reachesBeta])
           /\ thr' = [thr EXCEPT ![t] =
                        SetTop(@, [Top(t) EXCEPT
                                     !.pc = IF stop THEN "done"
                                            ELSE "sp_locked"])]
  /\ UNCHANGED <<poolMutex, opts, splitsLeft, pickerVars, thinkVars, engineVars>>

\* The search has returned, the picker exhausted or a cutoff seen:
\* searching = false, activePosition = nullptr, the thread's bit is cleared,
\* the nodes of its position are added to the split point, the mutex is
\* released.
IdleFinish(t) ==
  /\ t \in Pool
  /\ thr[t].frames # << >>
  /\ Top(t).kind = "search"
  /\ Top(t).sp # Null
  /\ \/ Top(t).pc = "done"
     \/ Top(t).pc = "sp_locked" /\ SP(Top(t).sp).movesLeft = 0
  /\ sps' = SetSP(sps, Top(t).sp,
                  [SP(Top(t).sp) EXCEPT !.slavesMask = @ \ {t},
                                        !.nodes = @ + Top(t).nodes,
                                        !.mutex = Free])
  /\ thr' = [thr EXCEPT ![t] =
               LET idle == Pop(@)
               IN  SetTop([idle EXCEPT !.searching = FALSE,
                                       !.activePosition = 0,
                                       !.recruitedFor = Null],
                          [idle.frames[Len(idle.frames)] EXCEPT
                             !.sp = Null, !.pc = "loop"])]
  /\ UNCHANGED <<poolMutex, opts, splitsLeft, pickerVars, thinkVars, engineVars>>

\* if (this_sp && !this_sp->slavesMask): a master whose split point has no
\* slave left goes to the retest.  The test does not read searching.
IdleMasterWake(t) ==
  /\ InFrame(t, "idle", "loop")
  /\ Top(t).this_sp # Null
  /\ SP(Top(t).this_sp).slavesMask = {}
  /\ thr' = [thr EXCEPT ![t] = SetTop(@, [Top(t) EXCEPT !.pc = "retest"])]
  /\ UNCHANGED <<sps, poolMutex, opts, splitsLeft, pickerVars, thinkVars, engineVars>>

\* The retest of slavesMask under the split point's mutex, and the return.
IdleRetest(t) ==
  /\ InFrame(t, "idle", "retest")
  /\ SP(Top(t).this_sp).mutex = Free
  /\ thr' = [thr EXCEPT ![t] =
               IF SP(Top(t).this_sp).slavesMask = {} THEN Pop(@)
               ELSE SetTop(@, [Top(t) EXCEPT !.pc = "loop"])]
  /\ UNCHANGED <<sps, poolMutex, opts, splitsLeft, pickerVars, thinkVars, engineVars>>

\* MainThread::idle_loop: think() has returned, searching = false.
RootDone(t) ==
  /\ InFrame(t, "search", "root")
  /\ thr' = [thr EXCEPT ![t] =
               SetTop([@ EXCEPT !.searching = FALSE],
                      [Top(t) EXCEPT !.pc = "over"])]
  /\ UNCHANGED <<sps, poolMutex, opts, splitsLeft, pickerVars, thinkVars, engineVars>>

---------------------------------------------------------------------------
(* SpecSplit: the pool while the main thread searches *)

InitSplit ==
  /\ NoPicker
  /\ NoThink
  /\ NoEngine
  /\ \/ InitPool(SmallPool, FALSE, MaxSplits, NestedSpMoves, NestedSpMoves)
     \/ InitPool(SmallPool, FALSE, MaxSplits, MaxSpMoves, LeafSpMoves)
     \/ InitPool(SmallPool, TRUE, MaxSplits, MaxSpMoves, MaxSpMoves)
     \/ InitPool(LargePool, FALSE, LargePoolSplits, MaxSpMoves, MaxSpMoves)
     \/ InitPool(SmallPool, FALSE, NestedSplits, MaxSpMoves, NestedSpMoves)

NextSplit ==
  \E t \in ThreadIds :
    \/ SplitBegin(t) \/ SplitLockPool(t) \/ SplitLockSp(t) \/ SplitScan(t)
    \/ SplitRecruit(t) \/ SplitDecide(t) \/ SplitUnlockSp(t)
    \/ SplitEnterIdle(t) \/ SplitRelockPool(t) \/ SplitRelockSp(t)
    \/ SplitRestore(t) \/ SplitUnlock(t) \/ SplitReturn(t)
    \/ IdleStartWork(t) \/ IdleGrab(t) \/ IdleLockSp(t) \/ SpTakeMove(t)
    \/ SpSearchChild(t) \/ SpRelock(t) \/ IdleFinish(t) \/ IdleMasterWake(t)
    \/ IdleRetest(t) \/ RootDone(t)

SpecSplit == InitSplit /\ [][NextSplit]_vars

\* Types of the pool's state.
FabricTypeOK ==
  /\ poolMutex \in Pool \cup {Free}
  /\ \A t \in Pool :
       /\ thr[t].splitPointsSize \in 0..MaxSplits
       /\ thr[t].frames # << >>
       /\ \A i \in 1..MaxSplits :
            /\ sps[t][i].mutex \in Pool \cup {Free}
            /\ sps[t][i].slavesMask \subseteq Pool
            /\ sps[t][i].movesLeft \in 0..MaxSpMoves

\* ---------------------------------------------------------------------------
\* Claims about the thread pool.

\* The top split point of a thread's stack.
TopSplitPoint(t) == SP(<<t, thr[t].splitPointsSize - 1>>)

\* C11: is_available_to(master) is true exactly when the thread is not
\* searching and either has no split point on its stack or has the master's bit
\* in the slavesMask of the split point on top of its stack; it is false for
\* every searching thread.
C11_Availability ==
  opts.size > 0 =>
    \A t \in Pool : \A master \in Pool :
      /\ is_available_to(t, master)
           <=> /\ ~thr[t].searching
               /\ \/ thr[t].splitPointsSize = 0
                  \/ master \in TopSplitPoint(t).slavesMask
      /\ thr[t].searching => ~is_available_to(t, master)

\* A thread waiting on its own split point, available to a thread that works
\* for that split point and unavailable to one that does not.
C11_Witness ==
  /\ opts.size > 0
  /\ \E t \in Pool : \E helper \in Pool : \E other \in Pool :
       /\ thr[t].splitPointsSize > 0
       /\ ~thr[t].searching
       /\ helper \in TopSplitPoint(t).slavesMask
       /\ other \notin TopSplitPoint(t).slavesMask
       /\ is_available_to(t, helper)
       /\ ~is_available_to(t, other)

\* The split() calls in progress: <<t, i>> is the i-th call on thread t's stack.
SplitCalls ==
  UNION {{<<t, i>> : i \in {j \in 1..Len(thr[t].frames) :
                              thr[t].frames[j].kind = "split"}} : t \in Pool}

SplitCall(c) == thr[c[1]].frames[c[2]]

\* C12 (helpful master): whenever split() recruits a thread whose own split
\* point stack is not empty, the recruiting master's bit is set in the
\* slavesMask of the split point on top of that thread's stack at the moment of
\* the recruitment.
C12_HelpfulMaster ==
  \A c \in SplitCalls :
    \A k \in 1..Len(SplitCall(c).booked) :
      LET was == SplitCall(c).booked[k]
      IN  was.size > 0 => c[1] \in was.topMask

\* A master waiting on its own split point has been recruited by one of its
\* slaves.
C12_Witness ==
  \E c \in SplitCalls :
    \E k \in 1..Len(SplitCall(c).booked) :
      LET was == SplitCall(c).booked[k]
      IN  /\ was.size > 0
          /\ c[1] \in was.topMask

\* The split point mutexes a thread holds.
HeldBy(t) ==
  {id \in Pool \X (0..(MaxSplits - 1)) : SP(id).mutex = t}

\* The thread's next step is Threads.mutex.lock().
RequestsPoolMutex(t) ==
  \/ InFrame(t, "split", "lock_pool")
  \/ InFrame(t, "split", "back")
  \/ InFrame(t, "idle", "grab")

\* The thread's next step in split() is sp.mutex.lock().
RequestsSpMutex(t) ==
  \/ InFrame(t, "split", "lock_sp")
  \/ InFrame(t, "split", "relock_sp")

\* C13 (lock order): on every path through split(), the re-acquisition after
\* the idle loop included, the pool mutex is taken before the split point
\* mutex, and no thread requests the pool mutex while it holds a split point
\* mutex.
C13_LockOrder ==
  \A t \in Pool :
    /\ RequestsPoolMutex(t) => HeldBy(t) = {}
    /\ RequestsSpMutex(t) => poolMutex = t /\ HeldBy(t) = {}
    /\ poolMutex = t /\ HeldBy(t) # {} =>
         /\ Top(t).kind = "split"
         /\ HeldBy(t) = {Top(t).sp}

\* A master back from the idle loop that holds both mutexes again.
C13_Witness ==
  \E t \in Pool :
    /\ InFrame(t, "split", "restore")
    /\ Top(t).idled
    /\ poolMutex = t
    /\ HeldBy(t) = {Top(t).sp}

\* The search that called split(): the frame under the split frame.
Caller(c) == thr[c[1]].frames[c[2] - 1]

\* split() has restored the master and is about to return.
Returning(c) == SplitCall(c).pc \in {"unlock", "returned"}

\* C14 (node accounting): sp.nodes starts at 0, and when split() returns the
\* node counter of the master's position is its value at the call plus the
\* final sp.nodes.
C14_NodeAccounting ==
  \A c \in SplitCalls :
    /\ SplitCall(c).pc \in {"lock_pool", "lock_sp", "scan", "recruit", "decide"}
         => SP(SplitCall(c).sp).nodes = 0
    /\ ~Returning(c) => Caller(c).nodes = SplitCall(c).nodesAtCall
    /\ Returning(c) =>
         Caller(c).nodes = SplitCall(c).nodesAtCall + SP(SplitCall(c).sp).nodes

\* A split() returns to a search that had counted nodes before the call, with
\* nodes counted at the split point.
C14_Witness ==
  \E c \in SplitCalls :
    /\ SplitCall(c).pc = "returned"
    /\ SplitCall(c).nodesAtCall > 0
    /\ SP(SplitCall(c).sp).nodes > 0
    /\ Caller(c).nodes = SplitCall(c).nodesAtCall + SP(SplitCall(c).sp).nodes

\* C15 (stack-balanced): when split() returns, with slaves recruited or not,
\* the master's splitPointsSize and activeSplitPoint are what they were at the
\* call, searching is true and activePosition is the position passed in.
C15_StackBalanced ==
  \A c \in SplitCalls :
    Returning(c) =>
      /\ thr[c[1]].splitPointsSize = SplitCall(c).sizeAtCall
      /\ thr[c[1]].activeSplitPoint = SplitCall(c).activeAtCall
      /\ thr[c[1]].searching
      /\ thr[c[1]].activePosition = c[2] - 1

\* A split() made below another split point returns after its slaves have
\* worked.
C15_Witness ==
  \E c \in SplitCalls :
    /\ SplitCall(c).pc = "returned"
    /\ SplitCall(c).booked # << >>
    /\ SplitCall(c).sizeAtCall > 0
    /\ SplitCall(c).activeAtCall # Null
    /\ thr[c[1]].splitPointsSize = SplitCall(c).sizeAtCall
    /\ thr[c[1]].activeSplitPoint = SplitCall(c).activeAtCall

\* The threads a split() call has recruited.
Recruited(c) ==
  {SplitCall(c).booked[k].slave : k \in 1..Len(SplitCall(c).booked)}

\* The recruitment loop of the call is over and no mutex has been released.
RecruitmentOver(c) == SplitCall(c).pc = "decide"

\* C16: after the recruitment step of a split() that is no fake split,
\* slavesMask holds the master's bit and at most maxThreadsPerSplitPoint bits,
\* and every other bit is the bit of a thread that was available to the master
\* and was recruited by this split(): it is searching with this split point as
\* its activeSplitPoint.
C16_RecruitmentBound ==
  \A c \in SplitCalls :
    RecruitmentOver(c) /\ ~SplitCall(c).fake =>
      LET sp == SP(SplitCall(c).sp)
      IN  /\ c[1] \in sp.slavesMask
          /\ Cardinality(sp.slavesMask) <= opts.maxThreadsPerSplitPoint
          /\ sp.slavesMask \ {c[1]} = Recruited(c)
          /\ Cardinality(Recruited(c)) = Len(SplitCall(c).booked)
          /\ \A k \in 1..Len(SplitCall(c).booked) :
               LET was == SplitCall(c).booked[k]
               IN  /\ was.available
                   /\ ~was.searching
                   /\ was.slave # c[1]
                   /\ thr[was.slave].searching
                   /\ thr[was.slave].activeSplitPoint = SplitCall(c).sp

\* The recruitment stopped at the limit with a thread still available.
C16_Witness ==
  \E c \in SplitCalls :
    /\ RecruitmentOver(c)
    /\ ~SplitCall(c).fake
    /\ Cardinality(SP(SplitCall(c).sp).slavesMask) = opts.maxThreadsPerSplitPoint
    /\ Recruited(c) # {}
    /\ available_slave(c[1]) # NoThread

\* The call is past the test of line 309.
Decided(c) ==
  SplitCall(c).pc \in {"unlock_sp", "unlock_pool", "back", "relock_sp",
                       "restore", "unlock", "returned"}

\* The call took the branch of line 309: it releases its mutexes and enters
\* the idle loop, or has done so.
TookIdlePath(c) ==
  \/ SplitCall(c).pc \in {"unlock_sp", "unlock_pool", "back", "relock_sp"}
  \/ SplitCall(c).idled

\* The master has just entered the idle loop from the call.
JustEnteredIdle(c) ==
  /\ SplitCall(c).pc = "back"
  /\ Len(thr[c[1]].frames) = c[2] + 1
  /\ InFrame(c[1], "idle", "loop")

\* The call went from the test of line 309 to the restore.
WentDirectlyToRestore(c) ==
  /\ SplitCall(c).pc = "restore"
  /\ ~SplitCall(c).idled

\* C17: split() enters the idle loop, after it has released both mutexes,
\* exactly when it has recruited a slave or is a fake split; otherwise it keeps
\* both mutexes and goes to the restore; a fake split recruits no slave.
C17_IdleLoopEntry ==
  \A c \in SplitCalls :
    /\ SplitCall(c).fake => SplitCall(c).booked = << >>
    /\ Decided(c) =>
         (TookIdlePath(c) <=> (SplitCall(c).booked # << >> \/ SplitCall(c).fake))
    /\ JustEnteredIdle(c) =>
         /\ poolMutex # c[1]
         /\ HeldBy(c[1]) = {}
    /\ WentDirectlyToRestore(c) =>
         /\ poolMutex = c[1]
         /\ SP(SplitCall(c).sp).mutex = c[1]

\* One master has entered the idle loop with slaves recruited while another
\* split(), which found no slave, goes to its restore with both mutexes held.
C17_Witness ==
  \E c \in SplitCalls : \E d \in SplitCalls :
    /\ SplitCall(c).pc = "back"
    /\ SplitCall(c).idled
    /\ SplitCall(c).booked # << >>
    /\ WentDirectlyToRestore(d)
    /\ ~SplitCall(d).fake
    /\ SplitCall(d).booked = << >>
    /\ poolMutex = d[1]
    /\ SP(SplitCall(d).sp).mutex = d[1]

\* The idle loop the master entered from the call has returned, and the master
\* has not yet taken a mutex again.
BackFromIdle(c) ==
  /\ SplitCall(c).pc = "back"
  /\ Len(thr[c[1]].frames) = c[2]

\* The threads that are at work for a split point, or booked for it and on
\* their way to it.
AtWorkFor(sp) ==
  {u \in Pool : \E i \in 1..Len(thr[u].frames) :
     /\ thr[u].frames[i].kind \in {"search", "idle"}
     /\ thr[u].frames[i].sp = sp}

\* C18: when the master's idle loop returns inside split(), every slave has
\* finished and cleared its bit in slavesMask, and the master has not been
\* booked: its searching is false and its activePosition is null.
C18_IdleLoopReturn ==
  \A c \in SplitCalls :
    BackFromIdle(c) =>
      /\ SP(SplitCall(c).sp).slavesMask = {}
      /\ AtWorkFor(SplitCall(c).sp) = {}
      /\ \A s \in Recruited(c) : thr[s].activeSplitPoint # SplitCall(c).sp
                                   \/ ~thr[s].searching
      /\ ~thr[c[1]].searching
      /\ thr[c[1]].activePosition = 0

\* A master is back from its idle loop, and one of the slaves it had was the
\* master that had recruited it, booked as a helper while waiting.
C18_Witness ==
  \E c \in SplitCalls :
    /\ BackFromIdle(c)
    /\ SplitCall(c).booked # << >>
    /\ SP(SplitCall(c).sp).slavesMask = {}
    /\ ~thr[c[1]].searching
    /\ \E d \in SplitCalls :
         /\ d[1] \in Recruited(c)
         /\ c[1] \in Recruited(d)

---------------------------------------------------------------------------
(* ThreadPool::start_thinking, ThreadPool::wait_for_think_finished and
   MainThread::idle_loop *)

\* Calls of start_thinking() in one run.
MaxSearches == 2

\* Moves a position may have as legal moves, and one more move that is legal in
\* no position of the run.
NumRootMoves == 2

\* Length of the searchmoves list of a go command.
MaxSearchMoves == 2

RootMoveValues == 1..NumRootMoves

SearchMoveValues == 1..(NumRootMoves + 1)

\* MoveList<LEGAL>(pos) of the positions of the run: each legal move once, in
\* the order the generator gives them.
LegalLists == {<< >>, <<1>>, <<2>>, <<1, 2>>, <<2, 1>>}

\* The searchMoves vectors of the run: any moves, legal or not, repeated or
\* not.
SearchMoveLists ==
  UNION {[1..n -> SearchMoveValues] : n \in 0..MaxSearchMoves}

\* The UI thread and the main thread, as owners of main()->mutex.
UiThread == 100


SignalNames == {"stop", "stopOnPonderhit", "firstRootMove", "failedLowAtRoot"}

NoSignals == [n \in SignalNames |-> FALSE]

NoPool ==
  /\ NoPicker
  /\ NoFabric

\* The program after ThreadPool::init(): the main thread is created with
\* thinking == true and is about to enter its idle loop; Signals and RootMoves
\* are globals, zero-initialized and empty.
InitThink ==
  /\ NoPool
  /\ NoEngine
  /\ uiPc = "idle"
  /\ call = << >>
  /\ searchesLeft = MaxSearches
  /\ searchesRun = 0
  /\ thinking = TRUE
  /\ mainPc = "lock"
  /\ mainMutex = Free
  /\ Signals = NoSignals
  /\ RootMoves = << >>

\* The values of a list.
Range(l) == {l[i] : i \in 1..Len(l)}

\* std::count(searchMoves.begin(), searchMoves.end(), m)
Count(searchMoves, m) ==
  Cardinality({i \in 1..Len(searchMoves) : searchMoves[i] = m})

\* A root-move builder that pushes a legal move once per occurrence in
\* searchMoves.
RECURSIVE BuildRootMovesFrom_PerOccurrence(_, _, _, _)
BuildRootMovesFrom_PerOccurrence(legal, searchMoves, i, acc) ==
  IF i > Len(legal) THEN acc
  ELSE LET times == IF searchMoves = << >> THEN 1
                    ELSE Count(searchMoves, legal[i])
           pushed == [k \in 1..times |-> legal[i]]
       IN  BuildRootMovesFrom_PerOccurrence(legal, searchMoves, i + 1,
                                            acc \o pushed)

\* The loop of lines 375-378 from the i-th legal move on: acc is RootMoves.
RECURSIVE BuildRootMovesFrom(_, _, _, _)
BuildRootMovesFrom(legal, searchMoves, i, acc) ==
  IF i > Len(legal) THEN acc
  ELSE BuildRootMovesFrom(legal, searchMoves, i + 1,
         IF searchMoves = << >> \/ Count(searchMoves, legal[i]) # 0
         THEN Append(acc, legal[i])
         ELSE acc)

\* The UI thread calls start_thinking(pos, limits, searchMoves, states).  The
\* position and searchMoves are drawn where the call first reads them, at line
\* 375.  call also records what the call finds: whether it has waited and
\* blocked, whether the signals it resets had been raised, whether the root
\* moves it clears were others, and the signals when it sets thinking.
StartThinking ==
  /\ uiPc = "idle"
  /\ searchesLeft > 0
  /\ call' = [legal |-> << >>, searchMoves |-> << >>,
              raisedBefore |-> FALSE, staleBefore |-> FALSE,
              waited |-> FALSE, blocked |-> FALSE,
              signalsAtSet |-> << >>]
  /\ searchesLeft' = searchesLeft - 1
  /\ uiPc' = "wait_lock"
  /\ UNCHANGED <<thinking, mainPc, mainMutex, Signals, RootMoves,
                 searchesRun, pickerVars, fabricVars, engineVars>>

\* wait_for_think_finished: std::unique_lock<std::mutex> lk(main()->mutex),
\* and the re-lock when the wait is over.
WaitLock ==
  /\ uiPc = "wait_lock"
  /\ mainMutex = Free
  /\ mainMutex' = UiThread
  /\ uiPc' = "wait_test"
  /\ UNCHANGED <<call, searchesLeft, thinking, mainPc, Signals, RootMoves,
                 searchesRun, pickerVars, fabricVars, engineVars>>

\* A wait_for_think_finished that returns without a look at thinking.
WaitTest_NoWait ==
  /\ uiPc = "wait_test"
  /\ mainMutex' = Free
  /\ uiPc' = "reset"
  /\ call' = [call EXCEPT !.waited = ~thinking]
  /\ UNCHANGED <<searchesLeft, thinking, mainPc, Signals, RootMoves,
                 searchesRun, pickerVars, fabricVars, engineVars>>

\* sleepCondition.wait(lk, pred): the predicate is read with the mutex held;
\* the thread returns, or releases the mutex and blocks.
WaitTest ==
  /\ uiPc = "wait_test"
  /\ mainMutex' = Free
  /\ IF ~thinking
     THEN /\ uiPc' = "reset"
          /\ call' = [call EXCEPT !.waited = TRUE]
     ELSE /\ uiPc' = "wait_blocked"
          /\ call' = [call EXCEPT !.blocked = TRUE]
  /\ UNCHANGED <<searchesLeft, thinking, mainPc, Signals, RootMoves,
                 searchesRun, pickerVars, fabricVars, engineVars>>

\* A start_thinking that resets stop and failedLowAtRoot alone.
StartReset_TwoSignals ==
  /\ uiPc = "reset"
  /\ Signals' = [Signals EXCEPT !["stop"] = FALSE,
                                !["failedLowAtRoot"] = FALSE]
  /\ call' = [call EXCEPT !.raisedBefore = Signals["stop"]
                                            /\ Signals["firstRootMove"]]
  /\ uiPc' = "build"
  /\ UNCHANGED <<searchesLeft, thinking, mainPc, mainMutex, RootMoves,
                 searchesRun, pickerVars, fabricVars, engineVars>>

\* SearchTime = Time::now() and the reset of the four signals.
StartReset ==
  /\ uiPc = "reset"
  /\ Signals' = NoSignals
  /\ call' = [call EXCEPT !.raisedBefore = Signals["stop"]
                                            /\ Signals["firstRootMove"]]
  /\ uiPc' = "build"
  /\ UNCHANGED <<searchesLeft, thinking, mainPc, mainMutex, RootMoves,
                 searchesRun, pickerVars, fabricVars, engineVars>>

\* RootMoves.clear(), RootPos, Limits, SetupStates, and the loop over
\* MoveList<LEGAL>(pos).
StartBuild ==
  /\ uiPc = "build"
  /\ \E legal \in LegalLists : \E searchMoves \in SearchMoveLists :
       LET built == BuildRootMovesFrom(legal, searchMoves, 1, << >>)
       IN  /\ RootMoves' = built
           /\ call' = [call EXCEPT
                         !.legal = legal,
                         !.searchMoves = searchMoves,
                         !.staleBefore = /\ RootMoves # << >>
                                         /\ Range(RootMoves) # Range(built)]
  /\ uiPc' = "set_thinking"
  /\ UNCHANGED <<searchesLeft, thinking, mainPc, mainMutex, Signals,
                 searchesRun, pickerVars, fabricVars, engineVars>>

\* main()->thinking = true
StartSetThinking ==
  /\ uiPc = "set_thinking"
  /\ thinking' = TRUE
  /\ call' = [call EXCEPT !.signalsAtSet = Signals]
  /\ uiPc' = "notify"
  /\ UNCHANGED <<searchesLeft, mainPc, mainMutex, Signals, RootMoves,
                 searchesRun, pickerVars, fabricVars, engineVars>>

\* A notify_one() that does not take the mutex at all.
StartNotify_NoLock ==
  /\ uiPc = "notify"
  /\ mainPc' = IF mainPc = "blocked" THEN "woken" ELSE mainPc
  /\ uiPc' = "idle"
  /\ call' = << >>
  /\ UNCHANGED <<searchesLeft, thinking, mainMutex, Signals, RootMoves,
                 searchesRun, pickerVars, fabricVars, engineVars>>

\* main()->notify_one(): the lock of line 56 is a temporary, released before
\* sleepCondition.notify_one() runs; a main thread blocked in wait() is woken,
\* any other main thread is not touched.
StartNotify ==
  /\ uiPc = "notify"
  /\ mainMutex = Free
  /\ mainPc' = IF mainPc = "blocked" THEN "woken" ELSE mainPc
  /\ uiPc' = "idle"
  /\ call' = << >>
  /\ UNCHANGED <<searchesLeft, thinking, mainMutex, Signals, RootMoves,
                 searchesRun, pickerVars, fabricVars, engineVars>>

\* MainThread::idle_loop: std::unique_lock<std::mutex> lk(mutex)
MainLock ==
  /\ mainPc = "lock"
  /\ mainMutex = Free
  /\ mainMutex' = MainThreadId
  /\ mainPc' = "clear"
  /\ UNCHANGED <<uiPc, call, searchesLeft, thinking, Signals, RootMoves,
                 searchesRun, pickerVars, fabricVars, engineVars>>

\* thinking = false
MainClearThinking ==
  /\ mainPc = "clear"
  /\ thinking' = FALSE
  /\ mainPc' = "test"
  /\ UNCHANGED <<uiPc, call, searchesLeft, mainMutex, Signals, RootMoves,
                 searchesRun, pickerVars, fabricVars, engineVars>>

\* while (!thinking && !exit), read with the mutex held.
MainTest ==
  /\ mainPc = "test"
  /\ mainPc' = IF ~thinking /\ ~exit[MainThreadId] THEN "sleep" ELSE "unlock"
  /\ UNCHANGED <<uiPc, call, searchesLeft, thinking, mainMutex, Signals,
                 RootMoves, searchesRun, pickerVars, fabricVars, engineVars>>

\* Threads.sleepCondition.notify_one(), which wakes a UI thread blocked in
\* wait_for_think_finished, and sleepCondition.wait(lk), which releases the
\* mutex and blocks.
MainSleep ==
  /\ mainPc = "sleep"
  /\ uiPc' = IF uiPc = "wait_blocked" THEN "wait_lock" ELSE uiPc
  /\ mainMutex' = Free
  /\ mainPc' = "blocked"
  /\ UNCHANGED <<call, searchesLeft, thinking, Signals, RootMoves,
                 searchesRun, pickerVars, fabricVars, engineVars>>

\* sleepCondition.wait(lk) may return with no notify_one(): a spurious wake-up.
MainSpuriousWake ==
  /\ mainPc = "blocked"
  /\ mainPc' = "woken"
  /\ UNCHANGED <<uiPc, call, searchesLeft, thinking, mainMutex, Signals,
                 RootMoves, searchesRun, pickerVars, fabricVars, engineVars>>

\* The wait is over: the mutex is locked again and the loop tests again.
MainWake ==
  /\ mainPc = "woken"
  /\ mainMutex = Free
  /\ mainMutex' = MainThreadId
  /\ mainPc' = "test"
  /\ UNCHANGED <<uiPc, call, searchesLeft, thinking, Signals, RootMoves,
                 searchesRun, pickerVars, fabricVars, engineVars>>

\* lk.unlock(); if (exit) return; searching = true; Search::think() is
\* entered.
MainUnlock ==
  /\ mainPc = "unlock"
  /\ mainMutex' = Free
  /\ IF exit[MainThreadId]
     THEN /\ mainPc' = "done"
          /\ UNCHANGED searchesRun
     ELSE /\ mainPc' = "think"
          /\ searchesRun' = searchesRun + 1
  /\ UNCHANGED <<uiPc, call, searchesLeft, thinking, Signals, RootMoves,
                 pickerVars, fabricVars, engineVars>>

\* The search writes a signal.
ThinkSignal ==
  /\ mainPc = "think"
  /\ \E n \in SignalNames : \E v \in BOOLEAN :
       /\ Signals[n] # v
       /\ Signals' = [Signals EXCEPT ![n] = v]
  /\ UNCHANGED <<uiPc, call, searchesLeft, thinking, mainPc, mainMutex,
                 RootMoves, searchesRun, pickerVars, fabricVars, engineVars>>

\* Search::think() returns; searching = false; the loop starts over.
ThinkReturn ==
  /\ mainPc = "think"
  /\ mainPc' = "lock"
  /\ UNCHANGED <<uiPc, call, searchesLeft, thinking, mainMutex, Signals,
                 RootMoves, searchesRun, pickerVars, fabricVars, engineVars>>

NextThink ==
  \/ StartThinking \/ WaitLock \/ WaitTest \/ StartReset \/ StartBuild
  \/ StartSetThinking \/ StartNotify
  \/ MainLock \/ MainClearThinking \/ MainTest \/ MainSleep \/ MainWake
  \/ MainSpuriousWake \/ MainUnlock \/ ThinkSignal \/ ThinkReturn

SpecThink == InitThink /\ [][NextThink]_vars

\* Fair scheduling: a thread that can take its next step takes it, a thread
\* that asks for a mutex that is free again and again gets it, and a search
\* returns.  No wake-up is owed to chance: spurious wake-ups may never happen.
FairThink ==
  /\ WF_vars(StartThinking)
  /\ SF_vars(WaitLock)
  /\ WF_vars(WaitTest)
  /\ WF_vars(StartReset)
  /\ WF_vars(StartBuild)
  /\ WF_vars(StartSetThinking)
  /\ SF_vars(StartNotify)
  /\ SF_vars(MainLock)
  /\ WF_vars(MainClearThinking)
  /\ WF_vars(MainTest)
  /\ WF_vars(MainSleep)
  /\ SF_vars(MainWake)
  /\ WF_vars(MainUnlock)
  /\ WF_vars(ThinkReturn)

SpecThinkFair == InitThink /\ [][NextThink]_vars /\ FairThink

---------------------------------------------------------------------------
\* Claims about start_thinking.

\* start_thinking() is between its wait and its write of thinking.
PastTheWait == uiPc \in {"reset", "build", "set_thinking"}

RootMovesBuilt == uiPc = "set_thinking"

\* C20: after start_thinking() the root-move list is exactly the legal moves of
\* the position when searchMoves is empty, and exactly the legal moves that
\* occur in searchMoves otherwise: each once, whatever the root moves of the
\* previous search were and whatever else searchMoves holds.
C20_RootMoves ==
  RootMovesBuilt =>
    /\ Len(RootMoves) = Cardinality(Range(RootMoves))
    /\ Range(RootMoves) =
         IF call.searchMoves = << >> THEN Range(call.legal)
         ELSE Range(call.legal) \cap Range(call.searchMoves)

\* A second search, with a searchMoves list that names one of two legal moves
\* and a move that is not legal, after a search with other root moves.
C20_Witness ==
  /\ RootMovesBuilt
  /\ Len(call.legal) = NumRootMoves
  /\ Range(call.searchMoves) \ Range(call.legal) # {}
  /\ Range(call.searchMoves) \cap Range(call.legal) # {}
  /\ Len(RootMoves) = 1
  /\ call.staleBefore

\* Search::think() is running on the main thread, or about to.
SearchRunning == mainPc \in {"unlock", "think"}

\* C21: wait_for_think_finished() returns only in a state where thinking is
\* false; so start_thinking() never sets thinking while the previous search is
\* still running, and the main thread never runs two searches at once: each
\* search it runs answers one write of thinking by start_thinking().
C21_OneSearchAtATime ==
  uiPc # "off" =>
    /\ uiPc = "reset" => ~thinking
    /\ PastTheWait => ~SearchRunning
    /\ SearchRunning => thinking
    /\ searchesRun <= MaxSearches - searchesLeft
    /\ uiPc \in {"wait_lock", "wait_test", "wait_blocked", "reset", "build",
                 "set_thinking"}
         => searchesRun <= MaxSearches - searchesLeft - 1

\* A start_thinking() that had to block until the search before it was over
\* has returned from its wait.
C21_Witness ==
  /\ uiPc = "reset"
  /\ call.blocked
  /\ call.waited
  /\ ~thinking
  /\ searchesRun = 1

\* Every start_thinking() of the run has been answered by a search, and the
\* main thread has cleared thinking after the last one.
AllSearchesDone ==
  /\ searchesLeft = 0
  /\ uiPc = "idle"
  /\ searchesRun = MaxSearches
  /\ ~thinking
  /\ ~SearchRunning

\* C22: under fair scheduling every start_thinking() is followed by one search
\* on the main thread, after which thinking is cleared and a caller blocked in
\* wait_for_think_finished() resumes; no wake-up is lost, however the write of
\* thinking and notify_one() interleave with the main thread's test and wait.
C22_NoLostWakeUp ==
  /\ <>[]AllSearchesDone
  /\ (uiPc = "wait_blocked") ~> (uiPc = "reset")
  /\ (uiPc = "notify") ~> (searchesRun = MaxSearches - searchesLeft)

\* start_thinking() has written thinking and is about to notify, while the
\* main thread has read thinking == false and is about to wait.
C22_Witness ==
  /\ uiPc = "notify"
  /\ thinking
  /\ mainPc = "sleep"
  /\ mainMutex = MainThreadId

---------------------------------------------------------------------------
(* UCI options and pool sizing: ucioption.cpp and ThreadPool::read_uci_options *)

\* The depth of one ply, in the units of Depth (types.h).
ONE_PLY == 2

\* The most threads a pool may have (thread.h).
MAX_THREADS == 64

MinSplitDepthDefault == 0
MinSplitDepthMin == 0
MinSplitDepthMax == 12
MaxThreadsPerSplitPointDefault == 5
MaxThreadsPerSplitPointMax == 8
ThreadsDefault == 1
ThreadsMin == 1

\* The threads below which the default minimum split depth is the small one.
FewThreads == 8
FewThreadsPlies == 4
ManyThreadsPlies == 7
MinPlies == 4

\* std::to_string(int)
to_string(n) == ToString(n)

\* The integers the run writes down as option values: every value a spin
\* option of the pool accepts, and one below and one above.
SpinInts == (0 - 1)..(MAX_THREADS + 1)

\* std::stoi(s), for the strings that are a number of SpinInts; it throws on
\* any other string.
stoi(s) ==
  IF \E n \in SpinInts : to_string(n) = s
  THEN CHOOSE n \in SpinInts : to_string(n) = s
  ELSE "invalid_argument"

\* Option::Option(int v, int minv, int maxv, Fn* f)
SpinOption(v, minv, maxv, f) ==
  [type |-> "spin", min |-> minv, max |-> maxv, on_change |-> f,
   defaultValue |-> to_string(v), currentValue |-> to_string(v)]

\* The options of UCI::init() that the thread pool reads.
OptionNames == {"Min Split Depth", "Max Threads per Split Point", "Threads"}

\* UCI::init(OptionsMap&), restricted to OptionNames
UciInit ==
  [name \in OptionNames |->
     CASE name = "Min Split Depth" ->
            SpinOption(MinSplitDepthDefault, MinSplitDepthMin,
                       MinSplitDepthMax, "on_threads")
       [] name = "Max Threads per Split Point" ->
            SpinOption(MaxThreadsPerSplitPointDefault,
                       MaxThreadsPerSplitPointMin,
                       MaxThreadsPerSplitPointMax, "on_threads")
       [] name = "Threads" ->
            SpinOption(ThreadsDefault, ThreadsMin, MAX_THREADS, "on_threads")]

\* Option::operator int()
OptionInt(o) ==
  IF o.type = "spin" THEN stoi(o.currentValue)
  ELSE IF o.currentValue = "true" THEN 1 ELSE 0

\* std::max
Maximum(a, b) == IF a < b THEN b ELSE a

\* The two loops of read_uci_options() that create and delete threads until
\* size() == requested.
RECURSIVE Resize(_, _)
Resize(size, requested) ==
  IF size < requested THEN Resize(size + 1, requested)
  ELSE IF size > requested THEN Resize(size - 1, requested)
  ELSE size

\* read_uci_options() taking the small default up to and including FewThreads
\* threads.
read_uci_options_FewInclusive(pool, o) ==
  LET maxThreadsPerSplitPoint == OptionInt(o["Max Threads per Split Point"])
      minimumSplitDepth == OptionInt(o["Min Split Depth"]) * ONE_PLY
      requested == OptionInt(o["Threads"])
  IN [pool EXCEPT
        !.maxThreadsPerSplitPoint = maxThreadsPerSplitPoint,
        !.minimumSplitDepth =
           IF minimumSplitDepth = 0
           THEN (IF requested <= FewThreads THEN FewThreadsPlies
                 ELSE ManyThreadsPlies) * ONE_PLY
           ELSE Maximum(MinPlies * ONE_PLY, minimumSplitDepth),
        !.size = Resize(pool.size, requested)]

\* ThreadPool::read_uci_options()
read_uci_options(pool, o) ==
  LET maxThreadsPerSplitPoint == OptionInt(o["Max Threads per Split Point"])
      minimumSplitDepth == OptionInt(o["Min Split Depth"]) * ONE_PLY
      requested == OptionInt(o["Threads"])
  IN [pool EXCEPT
        !.maxThreadsPerSplitPoint = maxThreadsPerSplitPoint,
        !.minimumSplitDepth =
           IF minimumSplitDepth = 0
           THEN (IF requested < FewThreads THEN FewThreadsPlies
                 ELSE ManyThreadsPlies) * ONE_PLY
           ELSE Maximum(MinPlies * ONE_PLY, minimumSplitDepth),
        !.size = Resize(pool.size, requested)]

\* ThreadPool::init(): the timer and the main thread are created, then the
\* options are read.
ThreadPoolInit(o) ==
  read_uci_options([sleepWhileIdle |-> TRUE, size |-> 1,
                    maxThreadsPerSplitPoint |-> 0, minimumSplitDepth |-> 0],
                   o)

\* The program after UCI::init() and Threads.init().
InitOptions ==
  /\ NoPicker
  /\ NoFabric
  /\ NoThink
  /\ NoExit
  /\ Options = UciInit
  /\ Threads = ThreadPoolInit(UciInit)
  /\ assigned = << >>

\* The values a setoption command may carry for a spin option: the empty
\* string and the numbers of SpinInts.
OptionValues == {""} \cup {to_string(n) : n \in SpinInts}

\* Whether Option::operator=(v) returns without assigning.
Rejected(o, v) ==
  IF o.type # "button" /\ v = "" THEN TRUE
  ELSE IF o.type = "check" /\ v # "true" /\ v # "false" THEN TRUE
  ELSE IF o.type = "spin" THEN stoi(v) < o.min \/ stoi(v) > o.max
  ELSE FALSE

\* Option::operator=(const string& v) on Options[name], with the on_change
\* action it triggers: on_threads() calls Threads.read_uci_options().
SetOption(name, v) ==
  /\ Options # << >>
  /\ UNCHANGED <<exit, loops, timer, closer, msecPc, assigned>>
  /\ IF Rejected(Options[name], v)
     THEN UNCHANGED <<Options, Threads>>
     ELSE /\ Options' =
               [Options EXCEPT
                  ![name].currentValue =
                     IF Options[name].type # "button" THEN v ELSE @]
          /\ Threads' =
               IF Options[name].on_change = "on_threads"
               THEN read_uci_options(Threads, Options')
               ELSE Threads
  /\ UNCHANGED <<pickerVars, fabricVars, thinkVars>>

NextOptions == \E name \in OptionNames : \E v \in OptionValues : SetOption(name, v)

SpecOptions == InitOptions /\ [][NextOptions]_vars

---------------------------------------------------------------------------
\* Claims about read_uci_options.

\* The value of the "Min Split Depth" option.
MinSplitDepthOption == OptionInt(Options["Min Split Depth"])

\* The value of the "Threads" option.
ThreadsOption == OptionInt(Options["Threads"])

\* C23: after read_uci_options the minimum split depth is 4 plies when the
\* "Min Split Depth" option is 0 and Threads < 8, 7 plies when the option is 0
\* and Threads >= 8, and the larger of 4 plies and the option value when the
\* option is not 0; in every case it is at least 4 plies.
C23_MinimumSplitDepth ==
  /\ (MinSplitDepthOption = 0 /\ ThreadsOption < 8)
       => Threads.minimumSplitDepth = 4 * ONE_PLY
  /\ (MinSplitDepthOption = 0 /\ ThreadsOption >= 8)
       => Threads.minimumSplitDepth = 7 * ONE_PLY
  /\ (MinSplitDepthOption # 0 /\ MinSplitDepthOption <= 4)
       => Threads.minimumSplitDepth = 4 * ONE_PLY
  /\ (MinSplitDepthOption # 0 /\ MinSplitDepthOption >= 4)
       => Threads.minimumSplitDepth = MinSplitDepthOption * ONE_PLY
  /\ Threads.minimumSplitDepth >= 4 * ONE_PLY

\* The option was set back to 0 in a pool resized to exactly 8 threads: the
\* large default is in force.
C23_Witness ==
  /\ MinSplitDepthOption = 0
  /\ ThreadsOption = 8
  /\ Threads.size = 8
  /\ Threads.minimumSplitDepth = 7 * ONE_PLY

---------------------------------------------------------------------------
(* The timer, the idle loops and ThreadPool::exit() *)

\* The largest interval the search writes to timer->msec.
MaxMsec == 1

\* The calls of check_time() the model counts; further calls are not counted.
MaxTicks == 2

INT_MAX == 2147483647

MsecValues == 0..MaxMsec

\* The order in which ThreadPool::exit() deletes the threads: the timer first,
\* then the threads of the pool.
ExitOrder == <<TimerId>> \o [i \in 1..ExitPool |-> i - 1]

\* The program after ThreadPool::init() in a pool of ExitPool threads, with no
\* search asked for: every thread is about to enter its idle loop, the main
\* thread with thinking == true from its constructor, the timer with msec 0.
InitExit ==
  /\ NoPicker
  /\ NoFabric
  /\ NoOptions
  /\ uiPc = "idle"
  /\ call = << >>
  /\ searchesLeft = 0
  /\ searchesRun = 0
  /\ thinking = TRUE
  /\ mainPc = "lock"
  /\ mainMutex = Free
  /\ Signals = NoSignals
  /\ RootMoves = << >>
  /\ exit = [t \in ExitIds |-> FALSE]
  /\ loops = [t \in {TimerId} \cup ExitSlaves |-> [pc |-> "loop", mutex |-> Free]]
  /\ timer = [msec |-> 0, timeout |-> 0, woke |-> FALSE, ticks |-> 0,
              calledAt |-> {}]
  /\ closer = [pc |-> "idle", i |-> 0]
  /\ msecPc = "idle"

\* The thread's own step: nothing but its place in the loop and its mutex
\* changes.
LoopStep(t, pc, mutex) ==
  /\ loops' = [loops EXCEPT ![t] = [pc |-> pc, mutex |-> mutex]]
  /\ UNCHANGED <<Options, Threads, assigned, exit, closer, msecPc, pickerVars,
                 fabricVars, thinkVars>>

\* TimerThread::idle_loop: while (!exit)
TimerLoop ==
  /\ loops # << >>
  /\ loops[TimerId].pc = "loop"
  /\ LoopStep(TimerId, IF exit[TimerId] THEN "done" ELSE "lock", Free)
  /\ timer' = [timer EXCEPT !.woke = FALSE]

\* std::unique_lock<std::mutex> lk(mutex)
TimerLock ==
  /\ loops # << >>
  /\ loops[TimerId].pc = "lock"
  /\ loops[TimerId].mutex = Free
  /\ LoopStep(TimerId, "test", TimerId)
  /\ UNCHANGED timer

\* if (!exit), read with the mutex held
TimerTest ==
  /\ loops # << >>
  /\ loops[TimerId].pc = "test"
  /\ LoopStep(TimerId, IF ~exit[TimerId] THEN "wait" ELSE "unlock", TimerId)
  /\ UNCHANGED timer

\* sleepCondition.wait_for(lk, milliseconds(msec ? msec : INT_MAX)): the mutex
\* is released and the timer blocks.
TimerWait ==
  /\ loops # << >>
  /\ loops[TimerId].pc = "wait"
  /\ LoopStep(TimerId, "blocked", Free)
  /\ timer' = [timer EXCEPT
                 !.timeout = IF timer.msec # 0 THEN timer.msec ELSE INT_MAX]

\* The interval of wait_for elapses, or the wait ends spuriously.
TimerTimeout ==
  /\ loops # << >>
  /\ loops[TimerId].pc = "blocked"
  /\ LoopStep(TimerId, "woken", Free)
  /\ UNCHANGED timer

\* wait_for returns with the mutex held again.
TimerWake ==
  /\ loops # << >>
  /\ loops[TimerId].pc = "woken"
  /\ loops[TimerId].mutex = Free
  /\ LoopStep(TimerId, "unlock", TimerId)
  /\ timer' = [timer EXCEPT !.woke = TRUE]

\* lk.unlock()
TimerUnlock ==
  /\ loops # << >>
  /\ loops[TimerId].pc = "unlock"
  /\ LoopStep(TimerId, "check", Free)
  /\ UNCHANGED timer

\* A timer that calls check_time() whatever msec is.
TimerCheck_Always ==
  /\ loops # << >>
  /\ loops[TimerId].pc = "check"
  /\ LoopStep(TimerId, "loop", Free)
  /\ timer' = [timer EXCEPT
                 !.ticks = IF @ < MaxTicks THEN @ + 1 ELSE @,
                 !.calledAt = @ \cup {timer.msec}]

\* if (msec) check_time(): the call is counted, and the value msec has when
\* it is made is recorded.
TimerCheck ==
  /\ loops # << >>
  /\ loops[TimerId].pc = "check"
  /\ LoopStep(TimerId, "loop", Free)
  /\ timer' = IF timer.msec # 0
              THEN [timer EXCEPT
                      !.ticks = IF @ < MaxTicks THEN @ + 1 ELSE @,
                      !.calledAt = @ \cup {timer.msec}]
              ELSE timer

\* Thread::idle_loop of a slave with nothing to search: the loop is left when
\* exit is set.
SlaveLoop(s) ==
  /\ loops # << >>
  /\ loops[s].pc = "loop"
  /\ LoopStep(s, IF exit[s] THEN "done" ELSE "lock", Free)
  /\ UNCHANGED timer

\* The slave takes its mutex.
SlaveLock(s) ==
  /\ loops # << >>
  /\ loops[s].pc = "lock"
  /\ loops[s].mutex = Free
  /\ LoopStep(s, "test", s)
  /\ UNCHANGED timer

\* Under its mutex the slave waits unless searching or exit is set; searching
\* is false as long as no search is in progress.
SlaveTest(s) ==
  /\ loops # << >>
  /\ loops[s].pc = "test"
  /\ LoopStep(s, IF ~exit[s] THEN "wait" ELSE "unlock", s)
  /\ UNCHANGED timer

\* sleepCondition.wait: the mutex is released and the slave blocks.
SlaveWait(s) ==
  /\ loops # << >>
  /\ loops[s].pc = "wait"
  /\ LoopStep(s, "blocked", Free)
  /\ UNCHANGED timer

\* The wait ends with no notify_one(): a spurious wake-up.
SlaveSpuriousWake(s) ==
  /\ loops # << >>
  /\ loops[s].pc = "blocked"
  /\ LoopStep(s, "woken", Free)
  /\ UNCHANGED timer

\* The wait returns with the mutex held again.
SlaveWake(s) ==
  /\ loops # << >>
  /\ loops[s].pc = "woken"
  /\ loops[s].mutex = Free
  /\ LoopStep(s, "unlock", s)
  /\ UNCHANGED timer

\* The slave releases its mutex and tests again.
SlaveUnlock(s) ==
  /\ loops # << >>
  /\ loops[s].pc = "unlock"
  /\ LoopStep(s, "loop", Free)
  /\ UNCHANGED timer

\* The search writes timer->msec; it does so only before ThreadPool::exit().
SetMsec(v) ==
  /\ msecPc = "idle"
  /\ closer.pc = "idle"
  /\ timer' = [timer EXCEPT !.msec = v, !.ticks = 0]
  /\ msecPc' = "lock"
  /\ UNCHANGED <<Options, Threads, assigned, exit, loops, closer, pickerVars,
                 fabricVars, thinkVars>>

\* timer->notify_one(): the temporary lock of line 56
MsecLock ==
  /\ msecPc = "lock"
  /\ loops[TimerId].mutex = Free
  /\ msecPc' = "notify"
  /\ UNCHANGED <<Options, Threads, assigned, exit, loops, timer, closer, pickerVars,
                 fabricVars, thinkVars>>

\* timer->notify_one(): sleepCondition.notify_one() wakes a blocked timer.
MsecNotify ==
  /\ msecPc = "notify"
  /\ msecPc' = "idle"
  /\ loops' = [loops EXCEPT
                 ![TimerId].pc = IF @ = "blocked" THEN "woken" ELSE @]
  /\ UNCHANGED <<Options, Threads, assigned, exit, timer, closer, pickerVars,
                 fabricVars, thinkVars>>

\* The thread delete_thread() is working on.
Target == ExitOrder[closer.i]

\* The owner of th->mutex.
MutexOf(t) == IF t = MainThreadId THEN mainMutex ELSE loops[t].mutex

\* Whether th's idle_loop() has returned, so that join() returns.
Returned(t) ==
  IF t = MainThreadId THEN mainPc = "done" ELSE loops[t].pc = "done"

\* ThreadPool::exit() is called, after the last search has finished.
ExitBegin ==
  /\ closer # << >>
  /\ closer.pc = "idle"
  /\ msecPc = "idle"
  /\ closer' = [pc |-> "set", i |-> 1]
  /\ UNCHANGED <<Options, Threads, assigned, exit, loops, timer, msecPc, pickerVars,
                 fabricVars, thinkVars>>

\* delete_thread: th->exit = true
DeleteSetExit ==
  /\ closer # << >>
  /\ closer.pc = "set"
  /\ exit' = [exit EXCEPT ![Target] = TRUE]
  /\ closer' = [closer EXCEPT !.pc = "lock"]
  /\ UNCHANGED <<Options, Threads, assigned, loops, timer, msecPc, pickerVars,
                 fabricVars, thinkVars>>

\* A notify_one() that does not take th->mutex.
DeleteLock_NoLock ==
  /\ closer # << >>
  /\ closer.pc = "lock"
  /\ closer' = [closer EXCEPT !.pc = "notify"]
  /\ UNCHANGED <<Options, Threads, assigned, exit, loops, timer, msecPc, pickerVars,
                 fabricVars, thinkVars>>

\* th->notify_one(): std::unique_lock<std::mutex>(this->mutex) is a temporary,
\* it takes the mutex and releases it at once.
DeleteLock ==
  /\ closer # << >>
  /\ closer.pc = "lock"
  /\ MutexOf(Target) = Free
  /\ closer' = [closer EXCEPT !.pc = "notify"]
  /\ UNCHANGED <<Options, Threads, assigned, exit, loops, timer, msecPc, pickerVars,
                 fabricVars, thinkVars>>

\* th->notify_one(): sleepCondition.notify_one() wakes th if it is blocked.
DeleteNotify ==
  /\ closer # << >>
  /\ closer.pc = "notify"
  /\ closer' = [closer EXCEPT !.pc = "join"]
  /\ IF Target = MainThreadId
     THEN /\ mainPc' = IF mainPc = "blocked" THEN "woken" ELSE mainPc
          /\ UNCHANGED loops
     ELSE /\ loops' = [loops EXCEPT
                         ![Target].pc = IF @ = "blocked" THEN "woken" ELSE @]
          /\ UNCHANGED mainPc
  /\ UNCHANGED <<Options, Threads, assigned, exit, timer, msecPc, uiPc, call,
                 searchesLeft, searchesRun, thinking, mainMutex, Signals,
                 RootMoves, pickerVars, fabricVars>>

\* th->nativeThread.join(); delete th; then the next thread of exit()'s loop.
DeleteJoin ==
  /\ closer # << >>
  /\ closer.pc = "join"
  /\ Returned(Target)
  /\ closer' = IF closer.i < Len(ExitOrder)
               THEN [pc |-> "set", i |-> closer.i + 1]
               ELSE [pc |-> "done", i |-> closer.i]
  /\ UNCHANGED <<Options, Threads, assigned, exit, loops, timer, msecPc, pickerVars,
                 fabricVars, thinkVars>>

NextExit ==
  \/ TimerLoop \/ TimerLock \/ TimerTest \/ TimerWait \/ TimerTimeout
  \/ TimerWake \/ TimerUnlock \/ TimerCheck
  \/ \E s \in ExitSlaves :
       \/ SlaveLoop(s) \/ SlaveLock(s) \/ SlaveTest(s) \/ SlaveWait(s)
       \/ SlaveSpuriousWake(s) \/ SlaveWake(s) \/ SlaveUnlock(s)
  \/ MainLock \/ MainClearThinking \/ MainTest \/ MainSleep
  \/ MainSpuriousWake \/ MainWake \/ MainUnlock
  \/ \E v \in MsecValues : SetMsec(v)
  \/ MsecLock \/ MsecNotify
  \/ ExitBegin \/ DeleteSetExit \/ DeleteLock \/ DeleteNotify \/ DeleteJoin

SpecExit == InitExit /\ [][NextExit]_vars

---------------------------------------------------------------------------
\* Claims about the timer.

\* C24: the timer calls check_time() only when msec is not 0 at that moment,
\* and since msec was last written as 0 no call of check_time() was made.
C24_CheckTimeOnlyWithInterval ==
  /\ 0 \notin timer.calledAt
  /\ timer.msec = 0 => timer.ticks = 0

\* The timer was woken from a wait whose interval was INT_MAX, found msec 0
\* and is back at the head of its loop with no call of check_time() made; an
\* earlier round had called it with a non-zero msec.
C24_Witness ==
  /\ loops[TimerId].pc = "loop"
  /\ timer.woke
  /\ timer.timeout = INT_MAX
  /\ timer.msec = 0
  /\ timer.ticks = 0
  /\ timer.calledAt # {}

\* Fair scheduling of the idle loops and of ThreadPool::exit(): a thread that
\* can take its next step takes it, and a thread that asks for a mutex that is
\* free again and again gets it.  Nothing is owed to chance: timeouts and
\* spurious wake-ups may never happen, and the search may stop writing msec.
FairExit ==
  /\ WF_vars(TimerLoop)
  /\ SF_vars(TimerLock)
  /\ WF_vars(TimerTest)
  /\ WF_vars(TimerWait)
  /\ SF_vars(TimerWake)
  /\ WF_vars(TimerUnlock)
  /\ WF_vars(TimerCheck)
  /\ \A s \in ExitSlaves :
       /\ WF_vars(SlaveLoop(s))
       /\ SF_vars(SlaveLock(s))
       /\ WF_vars(SlaveTest(s))
       /\ WF_vars(SlaveWait(s))
       /\ SF_vars(SlaveWake(s))
       /\ WF_vars(SlaveUnlock(s))
  /\ SF_vars(MainLock)
  /\ WF_vars(MainClearThinking)
  /\ WF_vars(MainTest)
  /\ WF_vars(MainSleep)
  /\ SF_vars(MainWake)
  /\ WF_vars(MainUnlock)
  /\ WF_vars(DeleteSetExit)
  /\ SF_vars(DeleteLock)
  /\ WF_vars(DeleteNotify)
  /\ WF_vars(DeleteJoin)

SpecExitFair == InitExit /\ [][NextExit]_vars /\ FairExit

---------------------------------------------------------------------------
\* Claims about shutdown.

\* delete_thread(t) has set exit, has notified t and waits in join().
Joining(t) == closer.pc = "join" /\ Target = t

\* C25: with no search in progress, ThreadPool::exit() returns once it is
\* called, and it returns only after every join has completed: exit was set on
\* the timer, the main thread and every slave, each was notified and its idle
\* loop has returned; the main thread never starts a search on its way out.
C25_ShutdownTerminates ==
  /\ (closer.pc # "idle") ~> (closer.pc = "done")
  /\ [](closer.pc = "done" => \A t \in ExitIds : exit[t] /\ Returned(t))
  /\ [](mainPc # "think" /\ searchesRun = 0)

\* The timer is joined, and the main thread, blocked in its wait when exit was
\* set, has been woken by delete_thread and is about to test exit.
C25_Witness ==
  /\ Joining(MainThreadId)
  /\ Returned(TimerId)
  /\ exit[MainThreadId]
  /\ mainPc = "woken"

---------------------------------------------------------------------------
\* Claims about cutoffs.

\* The split point slots of the largest pool.
ChainBound == LargePool * MaxSplits

\* The split point k parentSplitPoint links above sp, Null once the links
\* have run out.
RECURSIVE NthParent(_, _)
NthParent(sp, k) ==
  IF k = 0 \/ sp = Null THEN sp
  ELSE NthParent(SP(sp).parentSplitPoint, k - 1)

\* The split points from sp upwards.
Chain(sp) == {NthParent(sp, k) : k \in 0..ChainBound} \ {Null}

\* C26: cutoff_occurred() is true iff some split point on the chain from the
\* thread's activeSplitPoint upwards through parentSplitPoint has cutoff set,
\* it is false when activeSplitPoint is null, and the chain ends: it reaches
\* null within as many links as there are split points.
C26_CutoffOccurred ==
  \A t \in Pool :
    LET active == thr[t].activeSplitPoint
    IN  /\ \E k \in 0..ChainBound : NthParent(active, k) = Null
        /\ cutoff_occurred(t) <=> \E sp \in Chain(active) : SP(sp).cutoff
        /\ active = Null => ~cutoff_occurred(t)

\* A thread has ended its work at a split point whose cutoff is not set: the
\* cutoff it saw is the one of an ancestor.
C26_Witness ==
  \E t \in Pool :
    /\ InFrame(t, "search", "done")
    /\ thr[t].activeSplitPoint = Top(t).sp
    /\ ~SP(Top(t).sp).cutoff
    /\ SP(Top(t).sp).parentSplitPoint # Null
    /\ cutoff_occurred(t)

\* The names of the split point slots of the pool.
SplitPointIds == {<<t, i>> : t \in Pool, i \in 0..(MaxSplits - 1)}

\* The split point is on its master's stack: split() has published it and has
\* not yet taken it off again.
Published(id) == id[2] < thr[id[1]].splitPointsSize

\* C27: the cutoff flag of a split point is false when split() publishes it,
\* becomes true only in a step of a participant that has searched a move of
\* that split point and ends its work there, and is not reset to false as long
\* as the split point is published, that is, until split() returns for it.
C27_CutoffFlag ==
  [][\A id \in SplitPointIds :
       /\ (~Published(id) /\ Published(id)') => ~SP(id).cutoff'
       /\ (~SP(id).cutoff /\ SP(id).cutoff') =>
            \E t \in SP(id).slavesMask :
               /\ InFrame(t, "search", "relock")
               /\ Top(t).sp = id
               /\ InFrame(t, "search", "done")'
       /\ (SP(id).cutoff /\ Published(id)) => SP(id).cutoff']_vars

\* A published split point has its cutoff set while a slave is still booked
\* for it and its master is in the idle loop of split().
C27_Witness ==
  \E id \in SplitPointIds :
    /\ Published(id)
    /\ SP(id).cutoff
    /\ SP(id).slavesMask \ {id[1]} # {}
    /\ InFrame(id[1], "idle", "loop")
    /\ Top(id[1]).this_sp = id

---------------------------------------------------------------------------
\* Claims about the order of the writes of split().

\* The call of split() that owns the split point, on its master's stack.
CallOf(sp) ==
  CHOOSE c \in SplitCalls : c[1] = sp[1] /\ SplitCall(c).sp = sp

\* The master still holds sp.mutex from the lock that precedes the
\* recruitment: nobody else has touched the split point since its
\* initialization.
StillInRecruitment(sp) ==
  /\ SplitCall(CallOf(sp)).pc \in {"scan", "recruit", "decide", "unlock_sp"}
  /\ SP(sp).mutex = sp[1]

\* C30: whenever the searching flag of a slave is true because a split()
\* recruited it, the slave's activeSplitPoint is that split point, the split
\* point is on its master's stack, its slavesMask holds the slave's bit, and
\* its fields are initialized: master and parent are those of the call, and
\* nodes is 0 and cutoff false as long as the master has not released the
\* split point's mutex.
C30_PublicationOrder ==
  \A s \in Pool :
    (thr[s].searching /\ thr[s].recruitedFor # Null) =>
      LET sp == thr[s].recruitedFor
      IN  /\ thr[s].activeSplitPoint = sp
          /\ Published(sp)
          /\ s \in SP(sp).slavesMask
          /\ \E c \in SplitCalls : c[1] = sp[1] /\ SplitCall(c).sp = sp
          /\ s \in Recruited(CallOf(sp))
          /\ SP(sp).masterThread = sp[1]
          /\ SP(sp).parentSplitPoint = SplitCall(CallOf(sp)).activeAtCall
          /\ StillInRecruitment(sp) => SP(sp).nodes = 0 /\ ~SP(sp).cutoff

\* A slave sees its searching flag set while the master is still in the
\* recruitment loop of split(), about to recruit a second slave.
C30_Witness ==
  \E s \in Pool :
    /\ thr[s].searching
    /\ thr[s].recruitedFor # Null
    /\ InFrame(s, "idle", "grab")
    /\ InFrame(thr[s].recruitedFor[1], "split", "recruit")
    /\ Top(thr[s].recruitedFor[1]).sp = thr[s].recruitedFor

---------------------------------------------------------------------------
\* Claims about the order of the moves of a bucket.

\* The phases whose loop takes find_best_index() at every pick.
PickBestPhases ==
  {"PH_GOOD_CAPTURES", "PH_EVASIONS"}
    \cup (IF args.pv THEN {"PH_NONCAPTURES"} ELSE {})

\* moves[] as the phase finds it when it is entered: generated and scored.
Bucket(tag) == EnterPhase(Construct(args), pos, tag).mp.moves

\* The score the bucket holds for a move.
ScoreIn(tag, m) ==
  (CHOOSE e \in Range(Bucket(tag)) : e.move = m).score

\* The generator of the phase.
GeneratorOf(tag) ==
  CASE tag = "PH_GOOD_CAPTURES" -> generate_captures(pos)
    [] tag = "PH_EVASIONS" -> generate_evasions(pos)
    [] tag = "PH_NONCAPTURES" -> generate_noncaptures(pos)

\* The place at which the generator inserted the move.
InsertedAt(tag, m) ==
  CHOOSE at \in DOMAIN GeneratorOf(tag) : GeneratorOf(tag)[at].move = m

\* The calls that returned a move of the bucket.
EmittedIn(tag) == {i \in Emissions : log[i].phase = tag}

\* Two moves of a bucket were returned with equal scores against the order in
\* which the generator inserted them.
AgainstInsertionOrder(tag, i, j) ==
  /\ i < j
  /\ ScoreIn(tag, log[i].move) = ScoreIn(tag, log[j].move)
  /\ InsertedAt(tag, log[i].move) > InsertedAt(tag, log[j].move)

\* C28 as stated: within a bucket drained with find_best_index() the moves are
\* returned by descending score, and moves of equal score in the order in
\* which the generator inserted them.
C28_StableOrdering ==
  \A tag \in PickBestPhases :
    \A i, j \in EmittedIn(tag) :
      i < j =>
        /\ ScoreIn(tag, log[i].move) >= ScoreIn(tag, log[j].move)
        /\ ~AgainstInsertionOrder(tag, i, j)

\* C28, amended: within a bucket drained with find_best_index() the moves are
\* returned by descending score, and every pick takes the first slot of
\* moves[movesPicked..numOfMoves) that holds the highest score, in the order
\* the slots have at that pick.
C28_DescendingFirstOccurrence ==
  /\ \A tag \in PickBestPhases :
       \A i, j \in EmittedIn(tag) :
         i < j => ScoreIn(tag, log[i].move) >= ScoreIn(tag, log[j].move)
  /\ (/\ current_move_type(mp, junk) \in PickBestPhases
      /\ mp.movesPicked < mp.numOfMoves)
     => LET best == find_best_index(mp)
        IN  /\ best \in mp.movesPicked..(mp.numOfMoves - 1)
            /\ \A k \in mp.movesPicked..(mp.numOfMoves - 1) :
                 /\ mp.moves[k + 1].score <= mp.moves[best + 1].score
                 /\ k < best => mp.moves[k + 1].score < mp.moves[best + 1].score

\* A bucket drained with find_best_index() has returned two moves of equal
\* score against the generator's order, after a move of higher score.
C28_Witness ==
  \E tag \in PickBestPhases :
    \E h, i, j \in EmittedIn(tag) :
      /\ h < i
      /\ ScoreIn(tag, log[h].move) > ScoreIn(tag, log[i].move)
      /\ AgainstInsertionOrder(tag, i, j)

---------------------------------------------------------------------------
\* Claims about the cursors of the picker.

\* The phases whose case of the switch fills moves[].
GeneratingPhases ==
  {"PH_GOOD_CAPTURES", "PH_NONCAPTURES", "PH_EVASIONS", "PH_QCAPTURES",
   "PH_QCHECKS"}

\* The phases the call that made this step has entered.
EnteredNow == {phases'[at] : at \in (Len(phases) + 1)..Len(phases')}

\* What a call may do to the cursors.
CursorStep ==
  /\ (mp'.phaseIndex = mp.phaseIndex)
       => /\ mp'.movesPicked >= mp.movesPicked
          /\ mp'.badCapturesPicked >= mp.badCapturesPicked
  /\ (mp'.movesPicked < mp.movesPicked)
       => /\ mp'.phaseIndex > mp.phaseIndex
          /\ EnteredNow \cap GeneratingPhases # {}

\* C29: in every state of the picker 0 <= movesPicked <= numOfMoves; while
\* the phase stays the same neither movesPicked nor badCapturesPicked
\* decreases; and movesPicked goes down only in a call that advanced the
\* phase into a generating phase.
C29_CursorInvariant ==
  /\ [](0 <= mp.movesPicked /\ mp.movesPicked <= mp.numOfMoves)
  /\ [][CursorStep]_vars

\* Two captures were returned from PH_GOOD_CAPTURES, and the picker is now in
\* PH_NONCAPTURES with its cursor back at one move picked.
C29_Witness ==
  /\ current_move_type(mp, junk) = "PH_NONCAPTURES"
  /\ Cardinality(EmittedIn("PH_GOOD_CAPTURES")) >= 2
  /\ EmittedIn("PH_NONCAPTURES") # {}
  /\ mp.movesPicked = 1

---------------------------------------------------------------------------
\* Claims about the recruitment of slaves.

\* The split() calls in progress that have recruited thread s and whose split
\* point still holds the bit of s.
WorksFor(s) ==
  {c \in SplitCalls : s \in Recruited(c) /\ s \in SP(SplitCall(c).sp).slavesMask}

\* C31: the thread split() is recruiting is another thread, is not searching
\* and is recruited for no other split point, and the recruiting master holds
\* Threads.mutex; two split() calls of different masters hold the bit of the
\* same recruited thread only when one split point lies below the other, the
\* thread waiting in between for a split point of its own.
C31_ExclusiveRecruitment ==
  /\ \A t \in Pool :
       InFrame(t, "split", "recruit") =>
         /\ Top(t).slave \in Pool \ {t}
         /\ ~thr[Top(t).slave].searching
         /\ thr[Top(t).slave].recruitedFor = Null
         /\ poolMutex = t
         /\ \A u \in Pool \ {t} : ~InFrame(u, "split", "recruit")
  /\ \A s \in Pool :
       \A c1, c2 \in WorksFor(s) :
         c1 # c2 =>
           \/ SplitCall(c1).sp \in Chain(SplitCall(c2).sp)
           \/ SplitCall(c2).sp \in Chain(SplitCall(c1).sp)

\* Two slaves of one split point have both called split(): one is recruiting
\* the master of that split point, the other waits for Threads.mutex.
C31_Witness ==
  \E t, u \in Pool :
    /\ t # u
    /\ InFrame(t, "split", "recruit")
    /\ InFrame(u, "split", "lock_pool")
    /\ thr[Top(t).slave].splitPointsSize > 0
    /\ is_available_to(Top(t).slave, u)

---------------------------------------------------------------------------
(* The pool with sleepWhileIdle set: Thread::idle_loop puts a thread that is
   not searching to sleep on its condition variable, split() and the last
   slave of a split point wake it with notify_one(). *)

SleepIds == 0..(SleepPool - 1)

InitSleep ==
  /\ NoPicker
  /\ NoThink
  /\ NoEngine
  /\ InitPool(SleepPool, FALSE, SleepSplits, MaxSpMoves, NestedSpMoves)

\* ThreadBase::notify_one() called on thread s: the thread record after it.  A
\* thread blocked in sleepCondition.wait() is woken, any other is not touched.
Notified(s) ==
  IF InFrame(s, "idle", "sleeping")
  THEN SetTop(thr[s], [Top(s) EXCEPT !.pc = "woken"])
  ELSE thr[s]

\* while (!searching && Threads.sleepWhileIdle): mutex.lock()
SleepLock(t) ==
  /\ InFrame(t, "idle", "loop")
  /\ ~thr[t].searching
  /\ thr[t].mutex = Free
  /\ thr' = [thr EXCEPT ![t] =
               SetTop([@ EXCEPT !.mutex = t], [Top(t) EXCEPT !.pc = "sleep_test"])]
  /\ UNCHANGED <<sps, poolMutex, opts, splitsLeft, pickerVars, thinkVars, engineVars>>

\* Under the mutex: a master whose slaves have all finished leaves the loop;
\* a thread that is still not searching waits, which releases the mutex; any
\* other thread unlocks and tests the loop condition again.
SleepTest(t) ==
  /\ InFrame(t, "idle", "sleep_test")
  /\ LET this_sp == Top(t).this_sp
         pc == IF this_sp # Null /\ SP(this_sp).slavesMask = {} THEN "broke"
               ELSE IF ~thr[t].searching THEN "sleeping"
               ELSE "loop"
     IN  thr' = [thr EXCEPT ![t] =
                   SetTop([@ EXCEPT !.mutex = Free], [Top(t) EXCEPT !.pc = pc])]
  /\ UNCHANGED <<sps, poolMutex, opts, splitsLeft, pickerVars, thinkVars, engineVars>>

\* A wait() that returns without a notify_one().
SleepSpuriousWake(t) ==
  /\ InFrame(t, "idle", "sleeping")
  /\ thr' = [thr EXCEPT ![t] = SetTop(@, [Top(t) EXCEPT !.pc = "woken"])]
  /\ UNCHANGED <<sps, poolMutex, opts, splitsLeft, pickerVars, thinkVars, engineVars>>

\* wait() takes the mutex again before it returns.
SleepWake(t) ==
  /\ InFrame(t, "idle", "woken")
  /\ thr[t].mutex = Free
  /\ thr' = [thr EXCEPT ![t] =
               SetTop([@ EXCEPT !.mutex = t], [Top(t) EXCEPT !.pc = "unlock"])]
  /\ UNCHANGED <<sps, poolMutex, opts, splitsLeft, pickerVars, thinkVars, engineVars>>

\* mutex.unlock(), back to the condition of the while loop.
SleepUnlock(t) ==
  /\ InFrame(t, "idle", "unlock")
  /\ thr' = [thr EXCEPT ![t] =
               SetTop([@ EXCEPT !.mutex = Free], [Top(t) EXCEPT !.pc = "loop"])]
  /\ UNCHANGED <<sps, poolMutex, opts, splitsLeft, pickerVars, thinkVars, engineVars>>

\* After the break: if (searching) starts the work, if (this_sp &&
\* !this_sp->slavesMask) goes to the retest, anything else loops.
SleepBroke(t) ==
  /\ InFrame(t, "idle", "broke")
  /\ LET this_sp == Top(t).this_sp
         pc == IF thr[t].searching THEN "grab"
               ELSE IF this_sp # Null /\ SP(this_sp).slavesMask = {}
               THEN "retest"
               ELSE "loop"
     IN  thr' = [thr EXCEPT ![t] = SetTop(@, [Top(t) EXCEPT !.pc = pc])]
  /\ UNCHANGED <<sps, poolMutex, opts, splitsLeft, pickerVars, thinkVars, engineVars>>

\* One write of the body of the while loop of split(), as in SplitRecruit;
\* after the last write slave->notify_one() is still to come.
SleepRecruit(t) ==
  /\ InFrame(t, "split", "recruit")
  /\ LET s == Top(t).slave
         sp == Top(t).sp
         size == thr[s].splitPointsSize
         was == [slave |-> s,
                 available |-> is_available_to(s, t),
                 searching |-> thr[s].searching,
                 size |-> size,
                 topMask |-> IF size = 0 THEN {}
                             ELSE SP(<<s, size - 1>>).slavesMask]
         write == RecruitWrites[Top(t).write]
         last == Top(t).write = Len(RecruitWrites)
     IN  /\ sps' = IF write = "slavesMask"
                   THEN SetSP(sps, sp, [SP(sp) EXCEPT !.slavesMask = @ \cup {s}])
                   ELSE sps
         /\ thr' = [thr EXCEPT
                      ![s] = [@ EXCEPT
                                !.activeSplitPoint =
                                   IF write = "activeSplitPoint" THEN sp ELSE @,
                                !.searching =
                                   IF write = "searching" THEN TRUE ELSE @,
                                !.recruitedFor =
                                   IF write = "searching" THEN sp ELSE @],
                      ![t] = SetTop(@, [Top(t) EXCEPT
                                          !.booked = IF Top(t).write = 1
                                                     THEN Append(@, was) ELSE @,
                                          !.write = IF last THEN 1 ELSE @ + 1,
                                          !.pc = IF last THEN "notify"
                                                 ELSE "recruit"])]
  /\ UNCHANGED <<poolMutex, opts, splitsLeft, pickerVars, thinkVars, engineVars>>

\* slave->notify_one(): the lock of line 56 is a temporary, taken and released
\* before sleepCondition.notify_one() runs.
SleepNotify(t) ==
  /\ InFrame(t, "split", "notify")
  /\ thr[Top(t).slave].mutex = Free
  /\ thr' = [thr EXCEPT ![Top(t).slave] = Notified(Top(t).slave),
                        ![t] = SetTop(@, [Top(t) EXCEPT !.pc = "scan"])]
  /\ UNCHANGED <<sps, poolMutex, opts, splitsLeft, pickerVars, thinkVars, engineVars>>

\* The search has returned, the picker exhausted or a cutoff seen:
\* searching = false, activePosition = nullptr, the thread's bit is cleared,
\* the nodes of its position are added to the split point; the mutex of the
\* split point is still held.
SleepFinish(t) ==
  /\ t \in Pool
  /\ thr[t].frames # << >>
  /\ Top(t).kind = "search"
  /\ Top(t).sp # Null
  /\ \/ Top(t).pc = "done"
     \/ Top(t).pc = "sp_locked" /\ SP(Top(t).sp).movesLeft = 0
  /\ sps' = SetSP(sps, Top(t).sp,
                  [SP(Top(t).sp) EXCEPT !.slavesMask = @ \ {t},
                                        !.nodes = @ + Top(t).nodes])
  /\ thr' = [thr EXCEPT ![t] =
               LET idle == Pop(@)
               IN  SetTop([idle EXCEPT !.searching = FALSE,
                                       !.activePosition = 0,
                                       !.recruitedFor = Null],
                          [idle.frames[Len(idle.frames)] EXCEPT
                             !.pc = "wake_master"])]
  /\ UNCHANGED <<poolMutex, opts, splitsLeft, pickerVars, thinkVars, engineVars>>

\* A last slave that leaves without sp->masterThread->notify_one().
SleepWakeMaster_NoNotify(t) ==
  /\ InFrame(t, "idle", "wake_master")
  /\ sps' = SetSP(sps, Top(t).sp, [SP(Top(t).sp) EXCEPT !.mutex = Free])
  /\ thr' = [thr EXCEPT ![t] =
               SetTop(@, [Top(t) EXCEPT !.sp = Null, !.pc = "loop"])]
  /\ UNCHANGED <<poolMutex, opts, splitsLeft, pickerVars, thinkVars, engineVars>>

\* if (Threads.sleepWhileIdle && this != sp->masterThread && !sp->slavesMask)
\* sp->masterThread->notify_one(); then sp->mutex.unlock().
SleepWakeMaster(t) ==
  /\ InFrame(t, "idle", "wake_master")
  /\ LET sp == Top(t).sp
         master == SP(sp).masterThread
         last == t # master /\ SP(sp).slavesMask = {}
     IN  /\ last => thr[master].mutex = Free
         /\ sps' = SetSP(sps, sp, [SP(sp) EXCEPT !.mutex = Free])
         /\ thr' = [thr EXCEPT
                      ![master] = IF last THEN Notified(master) ELSE @,
                      ![t] = SetTop(@, [Top(t) EXCEPT !.sp = Null,
                                                        !.pc = "loop"])]
  /\ UNCHANGED <<poolMutex, opts, splitsLeft, pickerVars, thinkVars, engineVars>>

\* The steps of thread t that its scheduling and its mutexes owe it.
SleepStep(t) ==
  \/ SplitBegin(t) \/ SplitLockPool(t) \/ SplitLockSp(t) \/ SplitScan(t)
  \/ SleepRecruit(t) \/ SleepNotify(t) \/ SplitDecide(t) \/ SplitUnlockSp(t)
  \/ SplitEnterIdle(t) \/ SplitRelockPool(t) \/ SplitRelockSp(t)
  \/ SplitRestore(t) \/ SplitUnlock(t) \/ SplitReturn(t)
  \/ IdleStartWork(t) \/ IdleGrab(t) \/ IdleLockSp(t) \/ SpTakeMove(t)
  \/ SpSearchChild(t) \/ SpRelock(t) \/ SleepFinish(t) \/ SleepWakeMaster(t)
  \/ IdleRetest(t) \/ RootDone(t)
  \/ SleepLock(t) \/ SleepTest(t) \/ SleepWake(t) \/ SleepUnlock(t)
  \/ SleepBroke(t)

NextSleep ==
  \E t \in SleepIds : SleepStep(t) \/ SleepSpuriousWake(t)

SpecSleep == InitSleep /\ [][NextSleep]_vars

\* Every thread that can take a step infinitely often takes one: the
\* scheduler is fair and no thread is kept from a mutex that is free again
\* and again.  No wait() is owed a spurious return.
FairSleep == \A t \in SleepIds : SF_vars(SleepStep(t))

SpecSleepFair == SpecSleep /\ FairSleep

\* Thread t is in a call of split().
InSplit(t) ==
  \E k \in 1..Len(thr[t].frames) : thr[t].frames[k].kind = "split"

\* Thread m is blocked in wait() as the master of a split point that no
\* thread works for any more.
AsleepOnEmpty(m) ==
  /\ InFrame(m, "idle", "sleeping")
  /\ Top(m).this_sp # Null
  /\ SP(Top(m).this_sp).slavesMask = {}

\* The last slave of the master's split point has cleared its bit and is
\* about to call notify_one() on the master.
WakeUpComing(m) ==
  \E s \in Pool \ {m} :
    /\ InFrame(s, "idle", "wake_master")
    /\ Top(s).sp = Top(m).this_sp

\* C32: under fair scheduling every call of split() returns; when the master
\* is back from the idle loop every participant has cleared its bit in
\* slavesMask; and a master is asleep on a split point with an empty
\* slavesMask only while the last slave is on its way to notify_one().
C32_SplitLiveness ==
  /\ (\E t \in SleepIds : InSplit(t)) ~> (\A t \in SleepIds : ~InSplit(t))
  /\ [](\A t \in SleepIds :
          InFrame(t, "split", "back") => SP(Top(t).sp).slavesMask = {})
  /\ [](\A m \in SleepIds : AsleepOnEmpty(m) => WakeUpComing(m))

\* The master sleeps in the idle loop of split() while the last slave of its
\* split point has cleared its bit and has not yet called notify_one().
C32_Witness ==
  \E m \in SleepIds : AsleepOnEmpty(m) /\ WakeUpComing(m)

---------------------------------------------------------------------------
(* Option::operator= on options of every type *)

\* Option::Option(bool v, Fn* f)
CheckOption(v, f) ==
  [type |-> "check", min |-> 0, max |-> 0, on_change |-> f,
   defaultValue |-> IF v THEN "true" ELSE "false",
   currentValue |-> IF v THEN "true" ELSE "false"]

\* Option::Option(Fn* f): defaultValue and currentValue stay empty strings.
ButtonOption(f) ==
  [type |-> "button", min |-> 0, max |-> 0, on_change |-> f,
   defaultValue |-> "", currentValue |-> ""]

\* nullptr as the on_change of an option.
NoFn == "nullptr"

\* The options assigned to: those the pool reads, a check option with an
\* on_change action, one without, and a button.
AssignNames ==
  OptionNames \cup {"Write Debug Log", "Ponder", "Clear Hash"}

\* UCI::init(OptionsMap&), restricted to AssignNames
UciInitAssign ==
  [name \in AssignNames |->
     CASE name = "Write Debug Log" -> CheckOption(FALSE, "on_logger")
       [] name = "Ponder" -> CheckOption(TRUE, NoFn)
       [] name = "Clear Hash" -> ButtonOption("on_clear_hash")
       [] OTHER -> UciInit[name]]

\* The values a setoption command carries in these runs: the empty string,
\* the two values of a check option, and numbers inside and outside the range
\* of every spin option.
AssignInts == {0, 4, 5, 9, MAX_THREADS + 1}

AssignValues == {"", "true", "false"} \cup {to_string(n) : n \in AssignInts}

\* std::stoi(s) throws std::invalid_argument.
StoiThrows(s) == \A n \in SpinInts : to_string(n) # s

\* An operator= that stores whatever number it is given.
OptionAssign_NoRange(o, v) ==
  IF o.type # "button" /\ v = ""
  THEN [option |-> o, ran |-> 0, threw |-> FALSE]
  ELSE IF o.type = "check" /\ v # "true" /\ v # "false"
  THEN [option |-> o, ran |-> 0, threw |-> FALSE]
  ELSE IF o.type = "spin" /\ StoiThrows(v)
  THEN [option |-> o, ran |-> 0, threw |-> TRUE]
  ELSE [option |-> [o EXCEPT !.currentValue = IF o.type # "button" THEN v
                                              ELSE @],
        ran |-> IF o.on_change # NoFn THEN 1 ELSE 0,
        threw |-> FALSE]

\* Option::operator=(const string& v) on option o: the option after the call,
\* the number of times on_change was called, and whether stoi(v) threw.  The
\* three tests are made from left to right, stoi(v) only for a spin option
\* that passed the first test.
OptionAssign(o, v) ==
  IF o.type # "button" /\ v = ""
  THEN [option |-> o, ran |-> 0, threw |-> FALSE]
  ELSE IF o.type = "check" /\ v # "true" /\ v # "false"
  THEN [option |-> o, ran |-> 0, threw |-> FALSE]
  ELSE IF o.type = "spin" /\ StoiThrows(v)
  THEN [option |-> o, ran |-> 0, threw |-> TRUE]
  ELSE IF o.type = "spin" /\ (stoi(v) < o.min \/ stoi(v) > o.max)
  THEN [option |-> o, ran |-> 0, threw |-> FALSE]
  ELSE [option |-> [o EXCEPT !.currentValue = IF o.type # "button" THEN v
                                              ELSE @],
        ran |-> IF o.on_change # NoFn THEN 1 ELSE 0,
        threw |-> FALSE]

\* The program after UCI::init() and Threads.init().
InitAssign ==
  /\ NoPicker
  /\ NoFabric
  /\ NoThink
  /\ NoExit
  /\ Options = UciInitAssign
  /\ Threads = ThreadPoolInit(UciInitAssign)
  /\ assigned = << >>

\* Options[name] = v, with the on_change action it triggers: on_threads()
\* calls Threads.read_uci_options(); on_logger() and on_clear_hash() write
\* nothing that is part of this state.
Assign(name, v) ==
  /\ Options # << >>
  /\ LET r == OptionAssign(Options[name], v)
     IN  /\ Options' = [Options EXCEPT ![name] = r.option]
         /\ Threads' = IF r.ran > 0 /\ Options[name].on_change = "on_threads"
                       THEN read_uci_options(Threads, Options')
                       ELSE Threads
         /\ assigned' = [name |-> name, v |-> v, before |-> Options[name],
                         pool |-> Threads, ran |-> r.ran, threw |-> r.threw]
  /\ UNCHANGED <<exit, loops, timer, closer, msecPc>>
  /\ UNCHANGED <<pickerVars, fabricVars, thinkVars>>

NextAssign ==
  \E name \in AssignNames : \E v \in AssignValues : Assign(name, v)

SpecAssign == InitAssign /\ [][NextAssign]_vars

---------------------------------------------------------------------------
\* Claims about Option::operator=.

\* The value is a number.
IsNumber(v) == \E n \in SpinInts : to_string(n) = v

\* The number a value stands for.
NumberOf(v) == CHOOSE n \in SpinInts : to_string(n) = v

\* The value is one of the invalid values for the option: empty for an option
\* that is no button, neither "true" nor "false" for a check option, a number
\* outside [min, max] for a spin option.
InvalidFor(o, v) ==
  \/ o.type # "button" /\ v = ""
  \/ o.type = "check" /\ v \notin {"true", "false"}
  \/ o.type = "spin" /\ IsNumber(v) /\ (NumberOf(v) < o.min \/ NumberOf(v) > o.max)

\* The value is no number at all, given to a spin option.
NoNumberFor(o, v) == o.type = "spin" /\ v # "" /\ ~IsNumber(v)

\* C33, for the values stoi() accepts: an assignment of an invalid value (empty
\* to an option that is no button, neither "true" nor "false" to a check
\* option, outside [min, max] to a spin option) leaves the option and the pool
\* as they were and does not run on_change; any other assignment of a value
\* that is a number, or that goes to an option that is no spin option, stores
\* the value, unless the option is a button, and runs the option's on_change,
\* if it has one, exactly once.
C33_AssignmentRejectsInvalid ==
  assigned # << >> =>
    LET o == assigned.before
        v == assigned.v
        now == Options[assigned.name]
    IN  /\ InvalidFor(o, v) =>
              /\ now = o
              /\ assigned.ran = 0
              /\ ~assigned.threw
              /\ Threads = assigned.pool
        /\ (~InvalidFor(o, v) /\ ~NoNumberFor(o, v)) =>
              /\ o.type # "button" => now.currentValue = v
              /\ now = [o EXCEPT !.currentValue = now.currentValue]
              /\ assigned.ran = IF o.on_change # NoFn THEN 1 ELSE 0
              /\ ~assigned.threw
              /\ Threads = IF o.on_change = "on_threads"
                           THEN read_uci_options(assigned.pool, Options)
                           ELSE assigned.pool

\* "Threads" holds a value it was given earlier, the pool has that many
\* threads, and the last assignment was a number above its maximum.
C33_Witness ==
  /\ assigned # << >>
  /\ assigned.name = "Threads"
  /\ IsNumber(assigned.v)
  /\ NumberOf(assigned.v) > Options["Threads"].max
  /\ Options["Threads"].currentValue # Options["Threads"].defaultValue
  /\ Threads.size = OptionInt(Options["Threads"])

=============================================================================
